---- MODULE Spec2Model ----
(***************************************************************************)
(* The per-peer channel protocol of daemon/packets.c: the accept_pkt_*     *)
(* handlers that consume inbound packets, the pkt_* builders that produce  *)
(* outbound packets, and update_to_new_htlcs, which installs a staged      *)
(* HTLC proposal.                                                          *)
(*                                                                         *)
(* A handler is an operator from (peer, packet) to an outcome record       *)
(*   [peer, pkt, aborted, problem]                                         *)
(* where peer is the peer structure as the handler leaves it, pkt is the   *)
(* packet it returns (NULL on success), aborted says that the process      *)
(* called abort() inside the handler, and problem is the format string     *)
(* that was handed to pkt_err.  One action per inbound packet or command   *)
(* applies the handler and the dispatch step that follows it.              *)
(*                                                                         *)
(* The routing graph of daemon/routing.c is the second part: the node map, *)
(* the connections and the calls that change them, under the              *)
(* specification SpecRoute.                                                *)
(***************************************************************************)
EXTENDS Integers, Sequences, FiniteSets, TLC

VARIABLES
    peer,       \* struct peer: us, them, anchor, cstate, current_htlc, ...
    state,      \* state of the peer protocol state machine
    running,    \* FALSE once the process has called abort()
    last,       \* the last event handled: its name, outcome and the peer before it
    sent,       \* the packets queued for the peer so far
    node_map,   \* dstate->nodes: the keys the node map holds
    nodes,      \* the struct node objects, by the key they were made for
    conns,      \* the struct node_connection objects, by address
    teardown,   \* TRUE once dstate is being freed
    rlast,      \* the last routing call: its name, its arguments, and whether
                \* it met a connection that it replaced or removed
    bfg         \* the bfg scratch array of each struct node, once written

peerVars == <<peer, state, running, last, sent>>

routeVars == <<node_map, nodes, conns, teardown, rlast, bfg>>

vars == <<peer, state, running, last, sent, node_map, nodes, conns, teardown, rlast, bfg>>

-----------------------------------------------------------------------------
(* Bounds of the model.                                                    *)

\* dstate->config.rel_locktime_max, in seconds
rel_locktime_max == 2
\* dstate->config.anchor_confirms_max
anchor_confirms_max == 1
\* dstate->config.commitment_fee_min, in satoshis
commitment_fee_min == 1
\* the anchor amount, in satoshis, of a channel that can pay its fee
AnchorSatoshis == 10
\* the revocation chain indices the remote peer draws its hashes from
MaxTheirIndex == 1

-----------------------------------------------------------------------------
(* Constants of the wire format and of the daemon.                         *)

OPEN_CHANNEL__ANCHOR_OFFER__WILL_CREATE_ANCHOR == 1
OPEN_CHANNEL__ANCHOR_OFFER__WONT_CREATE_ANCHOR == 2
LOCKTIME__LOCKTIME__NOT_SET == 0
LOCKTIME__LOCKTIME_SECONDS == 1
LOCKTIME__LOCKTIME_BLOCKS == 2

CMD_OPEN_WITH_ANCHOR == "CMD_OPEN_WITH_ANCHOR"
CMD_OPEN_WITHOUT_ANCHOR == "CMD_OPEN_WITHOUT_ANCHOR"
SIGHASH_ALL == "SIGHASH_ALL"

\* A null pointer, and the contents of a field nothing has written yet.
NULL == [null |-> TRUE]

-----------------------------------------------------------------------------
(* Crypto and conversion primitives.                                       *)

\* SHA256 as an injective function of its input.
sha256(x) == [sha256 |-> x]

\* The deterministic revocation chain of one side: preimage[n] and its hash.
revocation_preimage(who, n) == [who |-> who, n |-> n]

peer_get_revocation_preimage(p, n) == revocation_preimage("us", n)

peer_get_revocation_hash(p, n) == sha256(peer_get_revocation_preimage(p, n))

\* A signature by the holder of `key` over the anchor input of `tx`.
sign_tx(key, tx, redeemscript) == [key |-> key, tx |-> tx, redeemscript |-> redeemscript]

MalformedSig == [malformed |-> TRUE]

proto_to_signature(sig) == [ok |-> sig # MalformedSig, sig |-> sig]

check_tx_sig(tx, redeemscript, key, tsig) ==
    tsig.sig = sign_tx(key, tx, redeemscript)

pubkey(name) == [der |-> name]

BadKey == [badkey |-> TRUE]

proto_to_pubkey(k) == [ok |-> k # BadKey, key |-> k]

bitcoin_redeem_2of2(key1, key2) == [redeem_2of2 |-> <<key1, key2>>]

\* Locktime is a union tagged by locktime_case; seconds and blocks share
\* the field read here as seconds.
proto_to_rel_locktime(l) ==
    [ok |-> l.locktime_case \in {LOCKTIME__LOCKTIME_SECONDS, LOCKTIME__LOCKTIME_BLOCKS},
     locktime |-> [kind |-> l.locktime_case, v |-> l.seconds]]

-----------------------------------------------------------------------------
(* Channel balance engine.                                                 *)

RECURSIVE htlc_total(_)
htlc_total(htlcs) ==
    IF htlcs = <<>> THEN 0
    ELSE htlcs[1].msatoshis + htlc_total(Tail(htlcs))

total_funds(c) == c.pay_msat + c.fee_msat + htlc_total(c.htlcs)

commit_fee(a, b) == IF a > b THEN a ELSE b

EmptySide == [pay_msat |-> 0, fee_msat |-> 0, htlcs |-> <<>>]

\* initial_funding handing out a state whatever the fee is.
initial_funding_unchecked(funder, anchor_satoshis, fee) ==
    [a |-> [pay_msat |-> anchor_satoshis * 1000 - fee * 1000,
            fee_msat |-> fee * 1000,
            htlcs |-> <<>>],
     b |-> EmptySide]

\* The funder's view of a freshly funded channel: side a is the funder.
initial_funding(funder, anchor_satoshis, fee) ==
    IF fee > anchor_satoshis THEN NULL
    ELSE [a |-> [pay_msat |-> anchor_satoshis * 1000 - fee * 1000,
                 fee_msat |-> fee * 1000,
                 htlcs |-> <<>>],
          b |-> EmptySide]

\* invert_cstate leaving the two sides where they are.
invert_cstate_kept(cs) == cs

invert_cstate(cs) == [a |-> cs.b, b |-> cs.a]

copy_funding(cs) == cs

\* funding_add_htlc forgetting the HTLC.
funding_add_htlc_dropped(side, msatoshis, expiry, rhash) == side

funding_add_htlc(side, msatoshis, expiry, rhash) ==
    [side EXCEPT !.htlcs = Append(@, [msatoshis |-> msatoshis,
                                      expiry |-> expiry,
                                      rhash |-> rhash])]

\* funding_delta that lets a balance go negative.
funding_delta_unchecked(a_is_funder, anchor_satoshis, delta_a_msat, htlc_msat, A, B) ==
    LET fee == A.fee_msat + B.fee_msat
        a == A.pay_msat + A.fee_msat + delta_a_msat - htlc_msat
        b == B.pay_msat + B.fee_msat - delta_a_msat
        a_fee == IF a_is_funder THEN fee ELSE 0
        b_fee == fee - a_fee
    IN  [ok |-> TRUE,
         a |-> [A EXCEPT !.pay_msat = a - a_fee, !.fee_msat = a_fee],
         b |-> [B EXCEPT !.pay_msat = b - b_fee, !.fee_msat = b_fee]]

\* Moves delta_a_msat to side A and htlc_msat out of side A, the funder
\* paying the whole commitment fee; fails when a balance would go negative.
funding_delta(a_is_funder, anchor_satoshis, delta_a_msat, htlc_msat, A, B) ==
    LET fee == A.fee_msat + B.fee_msat
        a0 == A.pay_msat + A.fee_msat + delta_a_msat
        b == B.pay_msat + B.fee_msat - delta_a_msat
        a == a0 - htlc_msat
        a_fee == IF a_is_funder THEN fee ELSE 0
        b_fee == fee - a_fee
    IN  IF a0 < 0 \/ b < 0 \/ a < 0 \/ a < a_fee \/ b < b_fee
        THEN [ok |-> FALSE, a |-> A, b |-> B]
        ELSE [ok |-> TRUE,
              a |-> [A EXCEPT !.pay_msat = a - a_fee, !.fee_msat = a_fee],
              b |-> [B EXCEPT !.pay_msat = b - b_fee, !.fee_msat = b_fee]]

\* The pair of commitment transactions, determined by the balance state,
\* the two revocation hashes and the anchor they spend.
make_commit_txs(p, our_revocation_hash, their_revocation_hash, cs) ==
    [ours |-> [owner |-> "us", revocation_hash |-> our_revocation_hash,
               cstate |-> cs, anchor |-> p.anchor.txid],
     theirs |-> [owner |-> "them", revocation_hash |-> their_revocation_hash,
                 cstate |-> invert_cstate(cs), anchor |-> p.anchor.txid]]

peer_sign_theircommit(p, tx) == sign_tx(p.us.commitkey, tx, p.anchor.redeemscript)

-----------------------------------------------------------------------------
(* Outcomes of a handler.                                                  *)

\* pkt_err calls abort(): it builds no packet and never returns.
pkt_err(msg) == [pkt |-> NULL, aborted |-> TRUE, problem |-> msg]

PKT_ERROR(msg) == [pkt_case |-> "PKT_ERROR", problem |-> msg]

pkt_err_unexpected(pkt_case) == pkt_err("Unexpected packet")

\* The handler returned NULL.
Accepted(p) ==
    [peer |-> p, pkt |-> NULL, aborted |-> FALSE, problem |-> "", via |-> "return"]

\* The handler left through `return pkt_err(...)`.
Rejected(p, e) ==
    [peer |-> p, pkt |-> e.pkt, aborted |-> e.aborted, problem |-> e.problem,
     via |-> "pkt_err"]

\* A failed assert() or fatal(): the process aborts.
Aborted(p, what) ==
    [peer |-> p, pkt |-> NULL, aborted |-> TRUE, problem |-> "", via |-> what]

-----------------------------------------------------------------------------
(* Outbound packets.                                                       *)

\* What a builder leaves behind when one of its assert()s fails.
AssertFailed == [assert_failed |-> TRUE]

pkt_open(p, anchor) ==
    IF ~(IF anchor = OPEN_CHANNEL__ANCHOR_OFFER__WILL_CREATE_ANCHOR
         THEN p.us.offer_anchor = CMD_OPEN_WITH_ANCHOR
         ELSE anchor = OPEN_CHANNEL__ANCHOR_OFFER__WONT_CREATE_ANCHOR
              /\ p.us.offer_anchor = CMD_OPEN_WITHOUT_ANCHOR)
    THEN AssertFailed
    ELSE [pkt_case |-> "PKT_OPEN",
          revocation_hash |-> p.us.revocation_hash,
          commit_key |-> p.us.commitkey,
          final_key |-> p.us.finalkey,
          delay |-> [locktime_case |-> LOCKTIME__LOCKTIME_SECONDS,
                     seconds |-> p.us.locktime.v],
          commitment_fee |-> p.us.commit_fee,
          anch |-> anchor,
          min_depth |-> p.us.mindepth]

pkt_anchor(p) ==
    [pkt_case |-> "PKT_OPEN_ANCHOR",
     txid |-> p.anchor.txid,
     output_index |-> p.anchor.index,
     amount |-> p.anchor.satoshis,
     commit_sig |-> peer_sign_theircommit(p, p.them.commit)]

pkt_open_commit_sig(p) ==
    [pkt_case |-> "PKT_OPEN_COMMIT_SIG",
     sig |-> peer_sign_theircommit(p, p.them.commit)]

pkt_open_complete(p) == [pkt_case |-> "PKT_OPEN_COMPLETE"]

pkt_htlc_update(p, htlc_prog) ==
    [pkt_case |-> "PKT_UPDATE_ADD_HTLC",
     revocation_hash |-> htlc_prog.our_revocation_hash,
     amount_msat |-> htlc_prog.msatoshis,
     r_hash |-> htlc_prog.rhash,
     expiry |-> [locktime_case |-> htlc_prog.expiry.kind,
                 seconds |-> htlc_prog.expiry.v]]

pkt_update_accept(p) ==
    [pkt_case |-> "PKT_UPDATE_ACCEPT",
     sig |-> peer_sign_theircommit(p, p.current_htlc.their_commit),
     revocation_hash |-> p.current_htlc.our_revocation_hash]

pkt_update_signature(p) ==
    IF ~(p.num_htlcs > 0)
    THEN AssertFailed
    ELSE [pkt_case |-> "PKT_UPDATE_SIGNATURE",
          sig |-> peer_sign_theircommit(p, p.current_htlc.their_commit),
          revocation_preimage |-> peer_get_revocation_preimage(p, p.num_htlcs - 1)]

\* pkt_update_complete disclosing the preimage at index num_htlcs.
pkt_update_complete_current(p) ==
    [pkt_case |-> "PKT_UPDATE_COMPLETE",
     revocation_preimage |-> peer_get_revocation_preimage(p, p.num_htlcs)]

pkt_update_complete(p) ==
    [pkt_case |-> "PKT_UPDATE_COMPLETE",
     revocation_preimage |-> peer_get_revocation_preimage(p, p.num_htlcs - 1)]

-----------------------------------------------------------------------------
(* Inbound packets.                                                        *)

\* accept_pkt_open, with the outcome of its "Delay too great" comparison.
accept_pkt_open_checks(p, o, delay_too_great) ==
    IF ~proto_to_rel_locktime(o.delay).ok
    THEN Rejected(p, pkt_err("Invalid delay"))
    ELSE IF o.delay.locktime_case # LOCKTIME__LOCKTIME_SECONDS
    THEN Rejected(p, pkt_err("Delay in blocks not accepted"))
    ELSE IF delay_too_great
    THEN Rejected(p, pkt_err("Delay too great"))
    ELSE IF o.min_depth > anchor_confirms_max
    THEN Rejected(p, pkt_err("min_depth too great"))
    ELSE IF o.commitment_fee < commitment_fee_min
    THEN Rejected(p, pkt_err("Commitment fee too low"))
    ELSE IF o.anch \notin {OPEN_CHANNEL__ANCHOR_OFFER__WILL_CREATE_ANCHOR,
                           OPEN_CHANNEL__ANCHOR_OFFER__WONT_CREATE_ANCHOR}
    THEN Rejected(p, pkt_err("Unknown offer anchor value"))
    ELSE
    LET p1 == [p EXCEPT !.them.offer_anchor =
                   IF o.anch = OPEN_CHANNEL__ANCHOR_OFFER__WILL_CREATE_ANCHOR
                   THEN CMD_OPEN_WITH_ANCHOR ELSE CMD_OPEN_WITHOUT_ANCHOR]
    IN  IF p1.them.offer_anchor = p1.us.offer_anchor
        THEN Rejected(p1, pkt_err("Only one side can offer anchor"))
        ELSE IF ~proto_to_rel_locktime(o.delay).ok
        THEN Rejected(p1, pkt_err("Malformed locktime"))
        ELSE
        LET p2 == [p1 EXCEPT !.them.locktime = proto_to_rel_locktime(o.delay).locktime,
                             !.them.mindepth = o.min_depth,
                             !.them.commit_fee = o.commitment_fee]
        IN  IF ~proto_to_pubkey(o.commit_key).ok
            THEN Rejected(p2, pkt_err("Bad commitkey"))
            ELSE
            LET p3 == [p2 EXCEPT !.them.commitkey = proto_to_pubkey(o.commit_key).key]
            IN  IF ~proto_to_pubkey(o.final_key).ok
                THEN Rejected(p3, pkt_err("Bad finalkey"))
                ELSE Accepted([p3 EXCEPT
                        !.them.finalkey = proto_to_pubkey(o.final_key).key,
                        !.them.revocation_hash = o.revocation_hash,
                        !.anchor.redeemscript =
                            bitcoin_redeem_2of2(p3.us.commitkey, p3.them.commitkey)])

\* accept_pkt_open refusing a delay equal to the limit.
accept_pkt_open_limit_excluded(p, o) ==
    accept_pkt_open_checks(p, o, o.delay.seconds >= rel_locktime_max)

accept_pkt_open(p, o) ==
    accept_pkt_open_checks(p, o, o.delay.seconds > rel_locktime_max)

accept_pkt_anchor(p, a) ==
    IF ~(p.us.offer_anchor = CMD_OPEN_WITHOUT_ANCHOR
         /\ p.them.offer_anchor = CMD_OPEN_WITH_ANCHOR)
    THEN Aborted(p, "assert")
    ELSE
    LET p1 == [p EXCEPT !.anchor.txid = a.txid,
                        !.anchor.index = a.output_index,
                        !.anchor.satoshis = a.amount]
        commitfee == commit_fee(p1.them.commit_fee, p1.us.commit_fee)
        p2 == [p1 EXCEPT !.cstate = initial_funding(p1.us.offer_anchor,
                                                    p1.anchor.satoshis, commitfee)]
    IN  IF p2.cstate = NULL
        THEN Rejected(p2, pkt_err("Insufficient funds for fee"))
        ELSE
        LET p3 == [p2 EXCEPT !.cstate = invert_cstate(@)]
            txs == make_commit_txs(p3, p3.us.revocation_hash,
                                   p3.them.revocation_hash, p3.cstate)
            p4 == [p3 EXCEPT !.us.commit = txs.ours,
                             !.them.commit = txs.theirs,
                             !.cur_commit_theirsig.stype = SIGHASH_ALL]
        IN  IF ~proto_to_signature(a.commit_sig).ok
            THEN Rejected(p4, pkt_err("Malformed signature"))
            ELSE
            LET p5 == [p4 EXCEPT !.cur_commit_theirsig.sig =
                                     proto_to_signature(a.commit_sig).sig]
            IN  IF ~check_tx_sig(p5.us.commit, p5.anchor.redeemscript,
                                 p5.them.commitkey, p5.cur_commit_theirsig)
                THEN Rejected(p5, pkt_err("Bad signature"))
                ELSE Accepted(p5)

accept_pkt_open_commit_sig(p, s) ==
    LET p1 == [p EXCEPT !.cur_commit_theirsig.stype = SIGHASH_ALL]
    IN  IF ~proto_to_signature(s.sig).ok
        THEN Rejected(p1, pkt_err("Malformed signature"))
        ELSE
        LET p2 == [p1 EXCEPT !.cur_commit_theirsig.sig = proto_to_signature(s.sig).sig]
        IN  IF ~check_tx_sig(p2.us.commit, p2.anchor.redeemscript,
                             p2.them.commitkey, p2.cur_commit_theirsig)
            THEN Rejected(p2, pkt_err("Bad signature"))
            ELSE Accepted(p2)

proto_to_abs_locktime(l) ==
    [ok |-> l.locktime_case \in {LOCKTIME__LOCKTIME_SECONDS, LOCKTIME__LOCKTIME_BLOCKS},
     locktime |-> [kind |-> l.locktime_case, v |-> l.seconds]]

NoSig == [stype |-> "unset", sig |-> NULL]

\* accept_pkt_htlc_update, with the outcome of assert(!peer->current_htlc).
accept_pkt_htlc_update_staged(p, u, none_pending) ==
    LET cur0 == [msatoshis |-> u.amount_msat,
                 rhash |-> u.r_hash,
                 their_revocation_hash |-> u.revocation_hash,
                 our_revocation_hash |-> NULL,
                 expiry |-> NULL,
                 cstate |-> NULL,
                 our_commit |-> NULL,
                 their_commit |-> NULL,
                 their_sig |-> NoSig]
    IN  IF ~proto_to_abs_locktime(u.expiry).ok
        THEN Rejected(p, pkt_err("Invalid HTLC expiry"))
        ELSE
        LET cur1 == [cur0 EXCEPT !.expiry = proto_to_abs_locktime(u.expiry).locktime,
                                 !.cstate = copy_funding(p.cstate)]
            d == funding_delta(p.them.offer_anchor = CMD_OPEN_WITH_ANCHOR,
                               p.anchor.satoshis, 0, cur1.msatoshis,
                               cur1.cstate.b, cur1.cstate.a)
        IN  IF ~d.ok
            THEN Rejected(p, pkt_err("Cannot afford %PRIu64 milli-satoshis"))
            ELSE
            LET cs == [a |-> d.b,
                       b |-> funding_add_htlc(d.a, cur1.msatoshis,
                                              cur1.expiry, cur1.rhash)]
                our_rev == peer_get_revocation_hash(p, p.num_htlcs + 1)
                txs == make_commit_txs(p, our_rev, cur1.their_revocation_hash, cs)
                cur == [cur1 EXCEPT !.cstate = cs,
                                    !.our_revocation_hash = our_rev,
                                    !.our_commit = txs.ours,
                                    !.their_commit = txs.theirs]
            IN  IF ~none_pending
                THEN Aborted(p, "assert")
                ELSE Accepted([p EXCEPT !.current_htlc = cur])

\* accept_pkt_htlc_update without its assert: a pending proposal is replaced.
accept_pkt_htlc_update_unasserted(p, u) ==
    accept_pkt_htlc_update_staged(p, u, TRUE)

accept_pkt_htlc_update(p, u) ==
    accept_pkt_htlc_update_staged(p, u, p.current_htlc = NULL)

\* update_to_new_htlcs losing the HTLC arrays of the state it installs.
update_to_new_htlcs_htlcs_lost(p) ==
    LET cur == p.current_htlc
    IN  IF total_funds(p.cstate.a) + total_funds(p.cstate.b)
           # total_funds(cur.cstate.a) + total_funds(cur.cstate.b)
        THEN Aborted(p, "fatal")
        ELSE Accepted([p EXCEPT !.cstate = [a |-> [cur.cstate.a EXCEPT !.htlcs = <<>>],
                                            b |-> [cur.cstate.b EXCEPT !.htlcs = <<>>]],
                                !.us.commit = cur.our_commit,
                                !.them.commit = cur.their_commit,
                                !.us.revocation_hash = cur.our_revocation_hash,
                                !.them.revocation_hash = cur.their_revocation_hash,
                                !.num_htlcs = @ + 1])

\* update_to_new_htlcs installing the staged state without counting it.
update_to_new_htlcs_uncounted(p) ==
    LET cur == p.current_htlc
    IN  Accepted([p EXCEPT !.cstate = cur.cstate,
                           !.us.commit = cur.our_commit,
                           !.them.commit = cur.their_commit,
                           !.us.revocation_hash = cur.our_revocation_hash,
                           !.them.revocation_hash = cur.their_revocation_hash])

\* update_to_new_htlcs keeping the peer's old revocation hash.
update_to_new_htlcs_their_hash_kept(p) ==
    LET cur == p.current_htlc
    IN  Accepted([p EXCEPT !.cstate = cur.cstate,
                           !.us.commit = cur.our_commit,
                           !.them.commit = cur.their_commit,
                           !.us.revocation_hash = cur.our_revocation_hash,
                           !.num_htlcs = @ + 1])

update_to_new_htlcs(p) ==
    LET cur == p.current_htlc
    IN  IF total_funds(p.cstate.a) + total_funds(p.cstate.b)
           # total_funds(cur.cstate.a) + total_funds(cur.cstate.b)
        THEN Aborted(p, "fatal")
        ELSE Accepted([p EXCEPT !.cstate = cur.cstate,
                                !.us.commit = cur.our_commit,
                                !.them.commit = cur.their_commit,
                                !.us.revocation_hash = cur.our_revocation_hash,
                                !.them.revocation_hash = cur.their_revocation_hash,
                                !.num_htlcs = @ + 1])

accept_pkt_update_accept(p, a) ==
    LET p1 == [p EXCEPT !.current_htlc.their_revocation_hash = a.revocation_hash,
                        !.current_htlc.their_sig.stype = SIGHASH_ALL]
    IN  IF ~proto_to_signature(a.sig).ok
        THEN Rejected(p1, pkt_err("Malformed signature"))
        ELSE
        LET cur == p1.current_htlc
            txs == make_commit_txs(p1, cur.our_revocation_hash,
                                   cur.their_revocation_hash, cur.cstate)
            p2 == [p1 EXCEPT !.current_htlc.their_sig.sig = proto_to_signature(a.sig).sig,
                             !.current_htlc.our_commit = txs.ours,
                             !.current_htlc.their_commit = txs.theirs]
        IN  IF ~check_tx_sig(p2.current_htlc.our_commit, p2.anchor.redeemscript,
                             p2.them.commitkey, p2.current_htlc.their_sig)
            THEN Rejected(p2, pkt_err("Bad signature"))
            ELSE update_to_new_htlcs(p2)

check_preimage(preimage, hash) == sha256(preimage) = hash

accept_pkt_update_complete(p, c) == Accepted(p)

accept_pkt_update_signature(p, s) ==
    LET p1 == [p EXCEPT !.current_htlc.their_sig.stype = SIGHASH_ALL]
    IN  IF ~proto_to_signature(s.sig).ok
        THEN Rejected(p1, pkt_err("Malformed signature"))
        ELSE
        LET p2 == [p1 EXCEPT !.current_htlc.their_sig.sig = proto_to_signature(s.sig).sig]
        IN  IF ~check_tx_sig(p2.current_htlc.our_commit, p2.anchor.redeemscript,
                             p2.them.commitkey, p2.current_htlc.their_sig)
            THEN Rejected(p2, pkt_err("Bad signature"))
            ELSE IF ~check_preimage(s.revocation_preimage, p2.them.revocation_hash)
            THEN Rejected(p2, pkt_err("Bad revocation preimage"))
            ELSE update_to_new_htlcs(p2)

-----------------------------------------------------------------------------
(* The peer at construction, and what the remote peer can send.            *)

Unset == "unset"

NoSide ==
    [offer_anchor |-> Unset, commit_fee |-> 0, commitkey |-> NULL, finalkey |-> NULL,
     locktime |-> NULL, mindepth |-> 0, revocation_hash |-> NULL, commit |-> NULL]

InitPeer(offer) ==
    [us |-> [offer_anchor |-> offer,
             commit_fee |-> commitment_fee_min + 1,
             commitkey |-> pubkey("us_commit"),
             finalkey |-> pubkey("us_final"),
             locktime |-> [kind |-> LOCKTIME__LOCKTIME_SECONDS, v |-> rel_locktime_max],
             mindepth |-> anchor_confirms_max,
             revocation_hash |-> sha256(revocation_preimage("us", 0)),
             commit |-> NULL],
     them |-> NoSide,
     anchor |-> [txid |-> NULL, index |-> 0, satoshis |-> 0, redeemscript |-> NULL],
     cstate |-> NULL,
     cur_commit_theirsig |-> NoSig,
     current_htlc |-> NULL,
     num_htlcs |-> 0]

TheirRevHash(k) == sha256(revocation_preimage("them", k))

Delays ==
    {[locktime_case |-> LOCKTIME__LOCKTIME__NOT_SET, seconds |-> 0],
     [locktime_case |-> LOCKTIME__LOCKTIME_BLOCKS, seconds |-> rel_locktime_max]}
    \cup {[locktime_case |-> LOCKTIME__LOCKTIME_SECONDS, seconds |-> v] :
              v \in {rel_locktime_max, rel_locktime_max + 1}}

OpenPkts ==
    [pkt_case : {"PKT_OPEN"},
     delay : Delays,
     min_depth : {anchor_confirms_max, anchor_confirms_max + 1},
     commitment_fee : {commitment_fee_min - 1, commitment_fee_min, commitment_fee_min + 2},
     anch : {0, OPEN_CHANNEL__ANCHOR_OFFER__WILL_CREATE_ANCHOR,
             OPEN_CHANNEL__ANCHOR_OFFER__WONT_CREATE_ANCHOR},
     commit_key : {pubkey("them_commit"), BadKey},
     final_key : {pubkey("them_final"), BadKey},
     revocation_hash : {TheirRevHash(0)}]

\* The signatures the remote peer may put in a packet where we expect its
\* signature over `tx`: the right one, one over another transaction, one
\* by another key, and one that does not parse.
TheirSigs(p, tx, other) ==
    {sign_tx(p.them.commitkey, tx, p.anchor.redeemscript),
     sign_tx(p.them.commitkey, other, p.anchor.redeemscript),
     sign_tx(pubkey("mallory"), tx, p.anchor.redeemscript),
     MalformedSig}

AnchorTxid == sha256([tx |-> "anchor"])

AnchorAmounts == {commitment_fee_min, AnchorSatoshis}

HtlcAmounts == {1000, 2000, AnchorSatoshis * 1000}

Expiries1 == [locktime_case |-> LOCKTIME__LOCKTIME_SECONDS, seconds |-> 86400]

Expiries == {Expiries1, [locktime_case |-> LOCKTIME__LOCKTIME__NOT_SET, seconds |-> 0]}

RHash == sha256([r |-> "r"])

-----------------------------------------------------------------------------
(* The state machine around the handlers.                                  *)

InFlight == {"WAIT_FOR_HTLC_ACCEPT", "WAIT_FOR_UPDATE_SIG", "WAIT_FOR_UPDATE_COMPLETE"}

\* One event: the handler's outcome r on the input arg, then the state to
\* enter and the packet to queue when the handler returned NULL.
\* last.replaced remembers the revocation hash of the peer's commitment
\* that the latest install replaced.
Handle(op, arg, r, next, out) ==
    LET died == r.aborted \/ (r.pkt = NULL /\ out = AssertFailed)
    IN  /\ peer' = r.peer
        /\ last' = [op |-> op, arg |-> arg, pre |-> peer, pkt |-> r.pkt,
                    aborted |-> died,
                    problem |-> r.problem,
                    via |-> IF died /\ ~r.aborted THEN "assert" ELSE r.via,
                    replaced |-> IF r.peer.them.commit # peer.them.commit
                                    /\ peer.them.commit # NULL
                                 THEN peer.them.revocation_hash
                                 ELSE last.replaced]
        /\ running' = ~died
        /\ IF died
           THEN state' = state /\ sent' = sent
           ELSE IF r.pkt # NULL
           THEN state' = "ERROR" /\ sent' = sent \cup {r.pkt}
           ELSE /\ state' = next
                /\ sent' = sent \cup (IF out = NULL THEN {} ELSE {out})
        /\ UNCHANGED routeVars

\* empty_node_map: no node, no connection.
empty_node_map ==
    /\ node_map = {}
    /\ nodes = [k \in {} |-> NULL]
    /\ conns = [c \in {} |-> NULL]
    /\ teardown = FALSE
    /\ rlast = [op |-> "init", arg |-> NULL, fatal |-> FALSE, hit |-> FALSE]
    /\ bfg = [k \in {} |-> NULL]

Init ==
    /\ peer \in {InitPeer(CMD_OPEN_WITH_ANCHOR), InitPeer(CMD_OPEN_WITHOUT_ANCHOR)}
    /\ state = "INIT"
    /\ running = TRUE
    /\ last = [op |-> "init", arg |-> NULL, pre |-> peer, pkt |-> NULL,
               aborted |-> FALSE, problem |-> "", via |-> "return", replaced |-> NULL]
    /\ sent = {}
    /\ empty_node_map

SendOpen ==
    /\ running /\ state = "INIT"
    /\ Handle("cmd_open", NULL, Accepted(peer), "OPEN_WAIT_FOR_OPEN",
              pkt_open(peer, IF peer.us.offer_anchor = CMD_OPEN_WITH_ANCHOR
                             THEN OPEN_CHANNEL__ANCHOR_OFFER__WILL_CREATE_ANCHOR
                             ELSE OPEN_CHANNEL__ANCHOR_OFFER__WONT_CREATE_ANCHOR))

RecvOpen ==
    /\ running /\ state = "OPEN_WAIT_FOR_OPEN"
    /\ \E o \in OpenPkts :
          Handle("open", o, accept_pkt_open(peer, o),
                 IF peer.us.offer_anchor = CMD_OPEN_WITH_ANCHOR
                 THEN "OPEN_WAIT_FOR_ANCHOR_CREATE" ELSE "OPEN_WAIT_FOR_ANCHOR",
                 NULL)

\* We are the funder: the anchor exists, the channel is funded from our
\* side and the initial commitment transactions are built.
bitcoin_anchor_created(p, txid, index, satoshis) ==
    LET p1 == [p EXCEPT !.anchor.txid = txid,
                        !.anchor.index = index,
                        !.anchor.satoshis = satoshis,
                        !.cstate = initial_funding(p.us.offer_anchor, satoshis,
                                       commit_fee(p.them.commit_fee, p.us.commit_fee))]
        txs == make_commit_txs(p1, p1.us.revocation_hash,
                               p1.them.revocation_hash, p1.cstate)
    IN  Accepted([p1 EXCEPT !.us.commit = txs.ours, !.them.commit = txs.theirs])

AnchorCreated ==
    /\ running /\ state = "OPEN_WAIT_FOR_ANCHOR_CREATE"
    /\ LET r == bitcoin_anchor_created(peer, AnchorTxid, 0, AnchorSatoshis)
       IN  Handle("anchor_created", NULL, r, "OPEN_WAIT_FOR_COMMIT_SIG", pkt_anchor(r.peer))

\* The commitment transaction of ours that the funder signs in open_anchor.
FunderViewOfOurCommit(p, txid, satoshis) ==
    LET cs == initial_funding(p.them.offer_anchor, satoshis,
                              commit_fee(p.them.commit_fee, p.us.commit_fee))
    IN  IF cs = NULL THEN NULL
        ELSE make_commit_txs([p EXCEPT !.anchor.txid = txid], p.us.revocation_hash,
                             p.them.revocation_hash, invert_cstate(cs)).ours

RecvAnchor ==
    /\ running /\ state = "OPEN_WAIT_FOR_ANCHOR"
    /\ \E amount \in AnchorAmounts :
       \E sig \in TheirSigs(peer, FunderViewOfOurCommit(peer, AnchorTxid, amount), NULL) :
          LET a == [pkt_case |-> "PKT_OPEN_ANCHOR", txid |-> AnchorTxid,
                    output_index |-> 0, amount |-> amount, commit_sig |-> sig]
              r == accept_pkt_anchor(peer, a)
          IN  Handle("open_anchor", a, r, "OPEN_WAITING_ANCHOR_CONF",
                     pkt_open_commit_sig(r.peer))

RecvOpenCommitSig ==
    /\ running /\ state = "OPEN_WAIT_FOR_COMMIT_SIG"
    /\ \E sig \in TheirSigs(peer, peer.us.commit, peer.them.commit) :
          LET s == [pkt_case |-> "PKT_OPEN_COMMIT_SIG", sig |-> sig]
          IN  Handle("open_commit_sig", s, accept_pkt_open_commit_sig(peer, s),
                     "OPEN_WAITING_ANCHOR_CONF", NULL)

\* The anchor is buried deep enough and the peer said so too.
OpenComplete ==
    /\ running /\ state = "OPEN_WAITING_ANCHOR_CONF"
    /\ Handle("open_complete", NULL, Accepted(peer), "NORMAL", pkt_open_complete(peer))

\* Our own command to add an HTLC: stage the proposal on our side.
command_htlc(p, msatoshis, expiry, rhash) ==
    LET d == funding_delta(p.us.offer_anchor = CMD_OPEN_WITH_ANCHOR,
                           p.anchor.satoshis, 0, msatoshis, p.cstate.a, p.cstate.b)
        cur == [msatoshis |-> msatoshis,
                rhash |-> rhash,
                their_revocation_hash |-> NULL,
                our_revocation_hash |-> peer_get_revocation_hash(p, p.num_htlcs + 1),
                expiry |-> expiry,
                cstate |-> [a |-> funding_add_htlc(d.a, msatoshis, expiry, rhash),
                            b |-> d.b],
                our_commit |-> NULL,
                their_commit |-> NULL,
                their_sig |-> NoSig]
    IN  Accepted([p EXCEPT !.current_htlc = cur])

CmdNewHtlc ==
    /\ running /\ state = "NORMAL" /\ peer.current_htlc = NULL
    /\ \E m \in HtlcAmounts :
          /\ funding_delta(peer.us.offer_anchor = CMD_OPEN_WITH_ANCHOR,
                           peer.anchor.satoshis, 0, m, peer.cstate.a, peer.cstate.b).ok
          /\ LET r == command_htlc(peer, m, proto_to_abs_locktime(Expiries1).locktime, RHash)
             IN  Handle("cmd_htlc", NULL, r, "WAIT_FOR_HTLC_ACCEPT",
                        pkt_htlc_update(r.peer, r.peer.current_htlc))

UpdateAddHtlcPkts ==
    [pkt_case : {"PKT_UPDATE_ADD_HTLC"},
     amount_msat : HtlcAmounts,
     r_hash : {RHash},
     revocation_hash : {TheirRevHash(k) : k \in 0..MaxTheirIndex},
     expiry : Expiries]

RecvUpdateAddHtlc ==
    /\ running /\ state = "NORMAL"
    /\ \E u \in UpdateAddHtlcPkts :
          LET r == accept_pkt_htlc_update(peer, u)
          IN  Handle("update_add_htlc", u, r, "WAIT_FOR_UPDATE_SIG",
                     pkt_update_accept(r.peer))

\* An update_add_htlc while an update is in flight is not a packet the
\* state machine expects.
RecvUnexpectedAddHtlc ==
    /\ running /\ state \in InFlight
    /\ \E u \in UpdateAddHtlcPkts :
          Handle("update_add_htlc", u,
                 Rejected(peer, pkt_err_unexpected(u.pkt_case)), state, NULL)

\* Our new commitment transaction as the remote peer builds it to sign it.
TheirViewOfOurCommit(p, their_revocation_hash) ==
    make_commit_txs(p, p.current_htlc.our_revocation_hash, their_revocation_hash,
                    p.current_htlc.cstate)

RecvUpdateAccept ==
    /\ running /\ state = "WAIT_FOR_HTLC_ACCEPT"
    /\ \E k \in 0..MaxTheirIndex :
       \E sig \in TheirSigs(peer, TheirViewOfOurCommit(peer, TheirRevHash(k)).ours,
                            TheirViewOfOurCommit(peer, TheirRevHash(k)).theirs) :
          LET a == [pkt_case |-> "PKT_UPDATE_ACCEPT", sig |-> sig,
                    revocation_hash |-> TheirRevHash(k)]
              r == accept_pkt_update_accept(peer, a)
          IN  Handle("update_accept", a, r, "WAIT_FOR_UPDATE_COMPLETE",
                     pkt_update_signature(r.peer))

RecvUpdateSignature ==
    /\ running /\ state = "WAIT_FOR_UPDATE_SIG"
    /\ \E k \in 0..MaxTheirIndex :
       \E sig \in TheirSigs(peer, peer.current_htlc.our_commit,
                            peer.current_htlc.their_commit) :
          LET s == [pkt_case |-> "PKT_UPDATE_SIGNATURE", sig |-> sig,
                    revocation_preimage |-> revocation_preimage("them", k)]
              r == accept_pkt_update_signature(peer, s)
          IN  Handle("update_signature", s, r, "NORMAL", pkt_update_complete(r.peer))

RecvUpdateComplete ==
    /\ running /\ state = "WAIT_FOR_UPDATE_COMPLETE"
    /\ \E k \in 0..MaxTheirIndex :
          LET c == [pkt_case |-> "PKT_UPDATE_COMPLETE",
                    revocation_preimage |-> revocation_preimage("them", k)]
          IN  Handle("update_complete", c, accept_pkt_update_complete(peer, c),
                     "NORMAL", NULL)

Next ==
    \/ SendOpen
    \/ RecvOpen
    \/ AnchorCreated
    \/ RecvAnchor
    \/ RecvOpenCommitSig
    \/ OpenComplete
    \/ CmdNewHtlc
    \/ RecvUpdateAddHtlc
    \/ RecvUnexpectedAddHtlc
    \/ RecvUpdateAccept
    \/ RecvUpdateSignature
    \/ RecvUpdateComplete

Spec == Init /\ [][Next]_vars

-----------------------------------------------------------------------------
(* update_accept and update_signature handled while no proposal is pending. *)
(* Both handlers take cur = peer->current_htlc and store through it before  *)
(* anything else.  With cur NULL the store is undefined: it faults, or it   *)
(* lands in memory that is not the peer's and the handler goes on with what *)
(* it finds there, which no signature verifies.                             *)

NullDerefs == {"fault", "stray"}

\* accept_pkt_update_accept, whatever peer->current_htlc is.
accept_pkt_update_accept_unstaged(p, a, ub) ==
    IF p.current_htlc # NULL
    THEN accept_pkt_update_accept(p, a)
    ELSE IF ub = "fault"
    THEN Aborted(p, "fault")
    ELSE IF ~proto_to_signature(a.sig).ok
    THEN Rejected(p, pkt_err("Malformed signature"))
    ELSE Rejected(p, pkt_err("Bad signature"))

\* accept_pkt_update_signature, whatever peer->current_htlc is.
accept_pkt_update_signature_unstaged(p, s, ub) ==
    IF p.current_htlc # NULL
    THEN accept_pkt_update_signature(p, s)
    ELSE IF ub = "fault"
    THEN Aborted(p, "fault")
    ELSE IF ~proto_to_signature(s.sig).ok
    THEN Rejected(p, pkt_err("Malformed signature"))
    ELSE Rejected(p, pkt_err("Bad signature"))

\* The peer sends update_accept though we proposed nothing.
RecvUnstagedUpdateAccept ==
    /\ running /\ state = "NORMAL" /\ peer.current_htlc = NULL
    /\ \E k \in 0..MaxTheirIndex :
       \E sig \in TheirSigs(peer, peer.us.commit, peer.them.commit) :
       \E ub \in NullDerefs :
          LET a == [pkt_case |-> "PKT_UPDATE_ACCEPT", sig |-> sig,
                    revocation_hash |-> TheirRevHash(k)]
              r == accept_pkt_update_accept_unstaged(peer, a, ub)
          IN  Handle("update_accept", a, r, "WAIT_FOR_UPDATE_COMPLETE",
                     pkt_update_signature(r.peer))

\* The peer sends update_signature though it proposed nothing.
RecvUnstagedUpdateSignature ==
    /\ running /\ state = "NORMAL" /\ peer.current_htlc = NULL
    /\ \E k \in 0..MaxTheirIndex :
       \E sig \in TheirSigs(peer, peer.us.commit, peer.them.commit) :
       \E ub \in NullDerefs :
          LET s == [pkt_case |-> "PKT_UPDATE_SIGNATURE", sig |-> sig,
                    revocation_preimage |-> revocation_preimage("them", k)]
              r == accept_pkt_update_signature_unstaged(peer, s, ub)
          IN  Handle("update_signature", s, r, "NORMAL", pkt_update_complete(r.peer))

NextUnstaged ==
    \/ Next
    \/ RecvUnstagedUpdateAccept
    \/ RecvUnstagedUpdateSignature

SpecUnstaged == Init /\ [][NextUnstaged]_vars

-----------------------------------------------------------------------------
(* daemon/routing.c: the graph of nodes and connections.                   *)
(*                                                                         *)
(* A pointer to a node is the key the node was made for; a pointer to a    *)
(* connection is an address <<src, dst, k>> that no live connection has.   *)
(* The calls are operators on the graph [node_map, nodes, conns, fatal],   *)
(* where fatal says that the process has stopped in fatal() or a failed    *)
(* assert.                                                                 *)

\* The number of connections the model allocates at the same time.
MaxConns == 3

\* A field that the code has not written yet.
Uninit == [uninit |-> TRUE]

Lowest(S) == CHOOSE x \in S : \A y \in S : x <= y

get_node(g, id) == IF id \in g.node_map THEN id ELSE NULL

new_node(g, id) ==
    IF get_node(g, id) # NULL
    THEN [g EXCEPT !.fatal = TRUE]
    ELSE LET n == [id |-> id, in |-> <<>>, out |-> <<>>, port |-> 0,
                   hostname |-> Uninit]
         IN  [g EXCEPT !.node_map = g.node_map \cup {id},
                       !.nodes = [k \in DOMAIN g.nodes \cup {id} |->
                                     IF k = id THEN n ELSE g.nodes[k]]]

\* add_node starting the node afresh whether it is known or not.
add_node_afresh(g, pk, hostname, port) ==
    [g EXCEPT !.node_map = g.node_map \cup {pk},
              !.nodes = [k \in DOMAIN g.nodes \cup {pk} |->
                            IF k = pk
                            THEN [id |-> pk, in |-> <<>>, out |-> <<>>, port |-> port,
                                  hostname |-> hostname]
                            ELSE g.nodes[k]]]

add_node(g, pk, hostname, port) ==
    LET g1 == IF get_node(g, pk) = NULL THEN new_node(g, pk) ELSE g
        n == get_node(g1, pk)
    IN  [g1 EXCEPT !.nodes[n].hostname = hostname, !.nodes[n].port = port]

\* remove_conn_from_array filling the hole with the last entry.
remove_conn_from_array_swapped(arr, nc) ==
    LET hits == {i \in 1..Len(arr) : arr[i] = nc}
        i == Lowest(hits)
    IN  IF hits = {}
        THEN [found |-> FALSE, arr |-> arr]
        ELSE [found |-> TRUE,
              arr |-> IF i = Len(arr) THEN SubSeq(arr, 1, i - 1)
                      ELSE SubSeq([arr EXCEPT ![i] = arr[Len(arr)]], 1, Len(arr) - 1)]

\* Takes the first entry equal to nc out of the array, keeping the order
\* of the others.
remove_conn_from_array(arr, nc) ==
    LET hits == {i \in 1..Len(arr) : arr[i] = nc}
    IN  IF hits = {}
        THEN [found |-> FALSE, arr |-> arr]
        ELSE [found |-> TRUE,
              arr |-> SubSeq(arr, 1, Lowest(hits) - 1)
                      \o SubSeq(arr, Lowest(hits) + 1, Len(arr))]

destroy_connection(g, nc) ==
    LET c == g.conns[nc]
        fromin == remove_conn_from_array(g.nodes[c.dst].in, nc)
        g1 == [g EXCEPT !.nodes[c.dst].in = fromin.arr]
        fromout == remove_conn_from_array(g1.nodes[c.src].out, nc)
        g2 == [g1 EXCEPT !.nodes[c.src].out = fromout.arr]
    IN  IF ~fromin.found THEN [g EXCEPT !.fatal = TRUE]
        ELSE IF ~fromout.found THEN [g1 EXCEPT !.fatal = TRUE]
        ELSE g2

\* tal_free() of a connection: its destructor runs, then the memory goes.
tal_free_connection(g, nc) ==
    LET g1 == destroy_connection(g, nc)
    IN  IF g1.fatal THEN g1
        ELSE [g1 EXCEPT !.conns = [c \in DOMAIN g1.conns \ {nc} |-> g1.conns[c]]]

RECURSIVE destroy_node(_, _)
destroy_node(g, node) ==
    IF g.fatal THEN g
    ELSE IF Len(g.nodes[node].in) > 0
    THEN destroy_node(tal_free_connection(g, g.nodes[node].in[1]), node)
    ELSE IF Len(g.nodes[node].out) > 0
    THEN destroy_node(tal_free_connection(g, g.nodes[node].out[1]), node)
    ELSE g

\* tal_free() of a node: its destructor runs, then the memory goes.  The
\* node map is not told.
tal_free_node(g, node) ==
    LET g1 == destroy_node(g, node)
    IN  IF g1.fatal THEN g1
        ELSE [g1 EXCEPT !.nodes = [k \in DOMAIN g1.nodes \ {node} |-> g1.nodes[k]]]

\* tal(dstate, struct node_connection): an address not in use.
tal_node_connection(g, from, to) ==
    <<from, to, Lowest({k \in 1..(Cardinality(DOMAIN g.conns) + 1) :
                           <<from, to, k>> \notin DOMAIN g.conns})>>

\* The outcome is [g, nc]: the graph and the connection found or made.
get_or_make_connection(g, from_id, to_id) ==
    LET g1 == IF get_node(g, from_id) = NULL THEN new_node(g, from_id) ELSE g
        from == get_node(g1, from_id)
        g2 == IF get_node(g1, to_id) = NULL THEN new_node(g1, to_id) ELSE g1
        to == get_node(g2, to_id)
        toin == g2.nodes[to].in
        hits == {i \in 1..Len(toin) : g2.conns[toin[i]].src = from}
        nc == tal_node_connection(g2, from, to)
        made == [src |-> from, dst |-> to, base_fee |-> Uninit,
                 proportional_fee |-> Uninit, delay |-> Uninit, min_blocks |-> Uninit]
    IN  IF hits # {}
        THEN [g |-> g2, nc |-> toin[Lowest(hits)]]
        ELSE [g |-> [g2 EXCEPT
                       !.conns = [c \in DOMAIN g2.conns \cup {nc} |->
                                     IF c = nc THEN made ELSE g2.conns[c]],
                       !.nodes = [k \in DOMAIN g2.nodes |->
                                     LET n1 == IF k = to
                                               THEN [g2.nodes[k] EXCEPT !.in = Append(@, nc)]
                                               ELSE g2.nodes[k]
                                     IN  IF k = from
                                         THEN [n1 EXCEPT !.out = Append(@, nc)]
                                         ELSE n1]],
              nc |-> nc]

\* add_connection leaving a connection it finds as it is.
add_connection_kept(g, from, to, base_fee, proportional_fee, delay, min_blocks) ==
    LET r == get_or_make_connection(g, from, to)
    IN  IF r.nc \in DOMAIN g.conns THEN r.g
        ELSE [r.g EXCEPT !.conns[r.nc].base_fee = base_fee,
                         !.conns[r.nc].proportional_fee = proportional_fee,
                         !.conns[r.nc].delay = delay,
                         !.conns[r.nc].min_blocks = min_blocks]

add_connection(g, from, to, base_fee, proportional_fee, delay, min_blocks) ==
    LET r == get_or_make_connection(g, from, to)
    IN  [r.g EXCEPT !.conns[r.nc].base_fee = base_fee,
                    !.conns[r.nc].proportional_fee = proportional_fee,
                    !.conns[r.nc].delay = delay,
                    !.conns[r.nc].min_blocks = min_blocks]

\* remove_connection freeing the first route of the source, wherever it goes.
remove_connection_first(g, src, dst) ==
    LET from == get_node(g, src)
        to == get_node(g, dst)
    IN  IF from = NULL \/ to = NULL THEN g
        ELSE IF g.nodes[from].out = <<>> THEN g
        ELSE tal_free_connection(g, g.nodes[from].out[1])

remove_connection(g, src, dst) ==
    LET from == get_node(g, src)
        to == get_node(g, dst)
    IN  IF from = NULL \/ to = NULL THEN g
        ELSE LET out == g.nodes[from].out
                 hits == {i \in 1..Len(out) : g.conns[out[i]].dst = to}
             IN  IF hits = {} THEN g
                 ELSE tal_free_connection(g, out[Lowest(hits)])

-----------------------------------------------------------------------------
(* The calls that reach the graph.                                         *)

NodeIds == {pubkey("n1"), pubkey("n2"), pubkey("n3")}

\* The nodes that routes are added to.
DestinationIds == {pubkey("n1"), pubkey("n2")}

\* The node that add_node is called for.
AddedNodeIds == {pubkey("n1")}

Hostnames == {"alpha"}

Ports == {9735}

\* base_fee, proportional_fee, delay and min_blocks of the routes added.
RouteArgs ==
    {[base_fee |-> 1, proportional_fee |-> 10, delay |-> 6, min_blocks |-> 2],
     [base_fee |-> 5, proportional_fee |-> 0, delay |-> 3, min_blocks |-> 1]}

Graph == [node_map |-> node_map, nodes |-> nodes, conns |-> conns, fatal |-> FALSE]

HasConnection(from, to) ==
    \E c \in DOMAIN conns : conns[c].src = from /\ conns[c].dst = to

RouteCall(op, arg, g, hit) ==
    /\ node_map' = g.node_map
    /\ nodes' = g.nodes
    /\ conns' = g.conns
    /\ rlast' = [op |-> op, arg |-> arg, fatal |-> g.fatal, hit |-> hit]
    /\ UNCHANGED <<peerVars, bfg>>

InitRoute ==
    /\ Init
    /\ peer = InitPeer(CMD_OPEN_WITH_ANCHOR)

AddNode ==
    /\ ~rlast.fatal /\ ~teardown
    /\ \E pk \in AddedNodeIds, hostname \in Hostnames, port \in Ports :
          RouteCall("add_node", [pk |-> pk, hostname |-> hostname, port |-> port],
                    add_node(Graph, pk, hostname, port), FALSE)
    /\ UNCHANGED teardown

AddConnection ==
    /\ ~rlast.fatal /\ ~teardown
    /\ \E from \in NodeIds, to \in DestinationIds, a \in RouteArgs :
          /\ HasConnection(from, to) \/ Cardinality(DOMAIN conns) < MaxConns
          /\ RouteCall("add_connection", [from |-> from, to |-> to, route |-> a],
                       add_connection(Graph, from, to, a.base_fee, a.proportional_fee,
                                      a.delay, a.min_blocks),
                       \E c \in DOMAIN conns :
                          /\ conns[c].src = from /\ conns[c].dst = to
                          /\ conns[c].base_fee # a.base_fee)
    /\ UNCHANGED teardown

RemoveConnection ==
    /\ ~rlast.fatal /\ ~teardown
    /\ \E src \in NodeIds, dst \in NodeIds :
          RouteCall("remove_connection", [src |-> src, dst |-> dst],
                    remove_connection(Graph, src, dst), HasConnection(src, dst))
    /\ UNCHANGED teardown

\* dstate goes away: the nodes and connections hanging off it are freed,
\* in any order, and nothing looks at the graph again.
FreeNode ==
    /\ ~rlast.fatal
    /\ \E node \in DOMAIN nodes :
          RouteCall("free_node", [node |-> node], tal_free_node(Graph, node),
                    nodes[node].in # <<>> \/ nodes[node].out # <<>>)
    /\ teardown' = TRUE

FreeConnection ==
    /\ ~rlast.fatal /\ teardown
    /\ \E nc \in DOMAIN conns :
          RouteCall("free_connection", [nc |-> nc], tal_free_connection(Graph, nc), TRUE)
    /\ teardown' = TRUE

NextRoute ==
    \/ AddNode
    \/ AddConnection
    \/ RemoveConnection
    \/ FreeNode
    \/ FreeConnection

SpecRoute == InitRoute /\ [][NextRoute]_vars

-----------------------------------------------------------------------------
(* 64-bit arithmetic.  A 64-bit integer is held as the value of its bit    *)
(* pattern read as unsigned, 0 .. 2^64 - 1, written as a sequence of       *)
(* decimal limbs of four digits each, lowest limb first, without leading   *)
(* zero limbs, because the numbers of routing.c do not fit the integers of *)
(* the model checker.  An s64 is negative when its pattern is 2^63 or      *)
(* more.                                                                   *)

RECURSIVE BigOf(_)
\* The limbs of a small natural number.
BigOf(n) == IF n = 0 THEN <<>> ELSE <<n % 10000>> \o BigOf(n \div 10000)

RECURSIVE BigNorm(_)
BigNorm(a) ==
    IF a = <<>> THEN <<>>
    ELSE IF a[Len(a)] = 0 THEN BigNorm(SubSeq(a, 1, Len(a) - 1))
    ELSE a

RECURSIVE Dec(_)
\* The number written as groups of four decimal digits, highest group first.
Dec(groups) ==
    IF groups = <<>> THEN <<>>
    ELSE BigNorm(Dec(Tail(groups)) \o <<Head(groups)>>)

RECURSIVE BigAddCarry(_, _, _)
BigAddCarry(a, b, carry) ==
    IF a = <<>> /\ b = <<>> THEN (IF carry = 0 THEN <<>> ELSE <<carry>>)
    ELSE LET x == (IF a = <<>> THEN 0 ELSE Head(a))
                  + (IF b = <<>> THEN 0 ELSE Head(b)) + carry
         IN  <<x % 10000>> \o BigAddCarry(IF a = <<>> THEN <<>> ELSE Tail(a),
                                          IF b = <<>> THEN <<>> ELSE Tail(b),
                                          x \div 10000)

BigAdd(a, b) == BigAddCarry(a, b, 0)

RECURSIVE BigLess(_, _)
BigLess(a, b) ==
    IF Len(a) # Len(b) THEN Len(a) < Len(b)
    ELSE IF a = <<>> THEN FALSE
    ELSE IF a[Len(a)] # b[Len(b)] THEN a[Len(a)] < b[Len(b)]
    ELSE BigLess(BigNorm(SubSeq(a, 1, Len(a) - 1)), BigNorm(SubSeq(b, 1, Len(b) - 1)))

RECURSIVE BigSubBorrow(_, _, _)
BigSubBorrow(a, b, borrow) ==
    IF a = <<>> THEN <<>>
    ELSE LET x == Head(a) - (IF b = <<>> THEN 0 ELSE Head(b)) - borrow
         IN  <<(x + 10000) % 10000>>
             \o BigSubBorrow(Tail(a), IF b = <<>> THEN <<>> ELSE Tail(b),
                             IF x < 0 THEN 1 ELSE 0)

\* a - b, for b no more than a.
BigSub(a, b) == BigNorm(BigSubBorrow(a, b, 0))

RECURSIVE BigMulLimb(_, _, _)
BigMulLimb(a, k, carry) ==
    IF a = <<>> THEN BigOf(carry)
    ELSE LET x == Head(a) * k + carry
         IN  <<x % 10000>> \o BigMulLimb(Tail(a), k, x \div 10000)

RECURSIVE BigMul(_, _)
BigMul(a, b) ==
    IF b = <<>> THEN <<>>
    ELSE BigNorm(BigAdd(BigMulLimb(a, Head(b), 0),
                        LET r == BigMul(a, Tail(b))
                        IN  IF r = <<>> THEN <<>> ELSE <<0>> \o r))

RECURSIVE BigDivRem(_, _)
\* Quotient and remainder of a by a small divisor d, highest limb first.
BigDivRem(a, d) ==
    IF a = <<>> THEN [q |-> <<>>, r |-> 0]
    ELSE LET hi == BigDivRem(Tail(a), d)
             x == hi.r * 10000 + Head(a)
         IN  [q |-> BigNorm(<<x \div d>> \o hi.q), r |-> x % d]

BigDiv(a, d) == BigDivRem(a, d).q

\* 2^63 and 2^64.
TwoTo63 == Dec(<<922, 3372, 368, 5477, 5808>>)

TwoTo64 == Dec(<<1844, 6744, 737, 955, 1616>>)

\* a modulo 2^64: what is left of a in a 64-bit register.  2^64 is 65536^4.
Wrap64(a) ==
    IF BigLess(a, TwoTo64) THEN a
    ELSE BigSub(a, BigMul(BigDiv(BigDiv(BigDiv(BigDiv(a, 65536), 65536), 65536), 65536),
                          TwoTo64))

\* The s64 of this pattern is negative.
Negative(a) == ~BigLess(a, TwoTo63)

\* The magnitude of the s64 of this pattern.
Magnitude(a) == IF Negative(a) THEN BigSub(TwoTo64, a) ELSE a

\* The pattern of minus a, for a no more than 2^64.
Minus(a) == IF a = <<>> THEN <<>> ELSE Wrap64(BigSub(TwoTo64, a))

\* Sign extension of a small integer to 64 bits.
S64(n) == IF n < 0 THEN Minus(BigOf(0 - n)) ELSE BigOf(n)

\* Comparison of two s64.
LessS64(a, b) ==
    IF Negative(a) # Negative(b) THEN Negative(a) ELSE BigLess(a, b)

\* Addition of two s64: the pattern a wrapping build leaves, and whether
\* the addition overflows, which is undefined.
AddS64(a, b) ==
    [value |-> Wrap64(BigAdd(a, b)),
     overflow |-> /\ Negative(a) = Negative(b)
                  /\ Negative(Wrap64(BigAdd(a, b))) # Negative(a)]

\* Multiplication of two s64, the same way.
MulS64(a, b) ==
    LET m == BigMul(Magnitude(a), Magnitude(b))
        neg == Negative(a) # Negative(b) /\ m # <<>>
    IN  [value |-> IF neg THEN Minus(Wrap64(m)) ELSE Wrap64(m),
         overflow |-> IF neg THEN BigLess(TwoTo63, m) ELSE ~BigLess(m, TwoTo63)]

\* Addition, subtraction and multiplication of two u64.
AddU64(a, b) == Wrap64(BigAdd(a, b))

SubU64(a, b) == Wrap64(BigSub(BigAdd(a, TwoTo64), b))

MulU64(a, b) == Wrap64(BigMul(a, b))

-----------------------------------------------------------------------------
(* The fee and the risk of one connection.                                 *)

BLOCKS_PER_YEAR == 52596

\* Too big to reach, but no overflow if two of them are added: 0x3FFFFFFFFFFFFFFF.
INFINITE == Dec(<<461, 1686, 184, 2738, 7903>>)

\* The program as built: signed overflow wraps, or it traps.
Builds == {"wrap", "trap"}

\* mul_overflows_s64(a, b): the product of the two s64 does not fit an s64.
mul_overflows_s64(a, b) == MulS64(a, b).overflow

\* connection_fee(c, msatoshi).  proportional_fee is an s32 and msatoshi a
\* u64, so C converts proportional_fee to u64 and multiplies and divides
\* unsigned; the division by 1000000 is made in two steps here.
connection_fee(c, msatoshi) ==
    IF mul_overflows_s64(S64(c.proportional_fee), msatoshi) THEN INFINITE
    ELSE LET fee == BigDiv(BigDiv(MulU64(S64(c.proportional_fee), msatoshi), 1000), 1000)
         IN  AddS64(BigOf(c.base_fee), fee).value

\* connection_fee dividing the product as a signed number.
connection_fee_signed(c, msatoshi) ==
    IF mul_overflows_s64(S64(c.proportional_fee), msatoshi) THEN INFINITE
    ELSE LET p == MulS64(S64(c.proportional_fee), msatoshi).value
             q == BigDiv(BigDiv(Magnitude(p), 1000), 1000)
         IN  AddS64(BigOf(c.base_fee), IF Negative(p) THEN Minus(q) ELSE q).value

\* risk_fee(amount, delay, riskfactor): the u64 returned, and whether the
\* call ran into undefined behaviour: amount * delay is an s64
\* multiplication, made before the product becomes a double, and a double
\* of -1 or less has no u64.  riskfactor is a whole number here, and the
\* double arithmetic is taken as exact; the value is then the one a wrapping
\* build on x86-64 returns.
risk_fee(amount, delay, riskfactor) ==
    IF Negative(amount) THEN [value |-> BigOf(1), undefined |-> FALSE]
    ELSE LET p == MulS64(amount, BigOf(delay))
             scaled == BigMul(Magnitude(p.value), BigOf(riskfactor))
             q == BigDiv(BigDiv(scaled, BLOCKS_PER_YEAR), 10000)
         IN  IF ~Negative(p.value)
             THEN [value |-> AddU64(BigOf(1), q), undefined |-> p.overflow]
             ELSE IF scaled = <<>>
             THEN [value |-> BigOf(1), undefined |-> p.overflow]
             ELSE IF BigLess(q, BigOf(2))
             THEN [value |-> <<>>, undefined |-> p.overflow]
             ELSE [value |-> Minus(BigSub(q, BigOf(1))), undefined |-> TRUE]

\* What a call that ran into undefined behaviour leaves, by build.
Returned(value) == [trapped |-> FALSE, value |-> value]

Trapped == [trapped |-> TRUE, value |-> <<>>]

BaseFees == {0, 1000}

ProportionalFees == {-1000, -1, 0, 1, 3, 1000}

\* 9223372036854775 is the most that 1000 can multiply inside an s64.
Msatoshis ==
    {BigOf(0), BigOf(1), BigOf(999999), BigOf(1000000), BigOf(1004000),
     Dec(<<9223, 3720, 3685, 4775>>), Dec(<<9223, 3720, 3685, 4776>>),
     INFINITE, BigAdd(INFINITE, INFINITE)}

Amounts ==
    {S64(-1), S64(-1000000), BigOf(0), BigOf(1000000), INFINITE,
     BigAdd(INFINITE, INFINITE)}

Delays32 == {0, 1, 2, 10}

RiskFactors == {0, 1}

FeeCall(op, arg, result) ==
    /\ rlast' = [op |-> op, arg |-> arg, fatal |-> FALSE, hit |-> FALSE,
                 result |-> result]
    /\ UNCHANGED <<peerVars, node_map, nodes, conns, teardown, bfg>>

ConnectionFee ==
    /\ ~rlast.fatal
    /\ \E base \in BaseFees, prop \in ProportionalFees, msatoshi \in Msatoshis :
          LET c == [base_fee |-> base, proportional_fee |-> prop]
          IN  FeeCall("connection_fee", [c |-> c, msatoshi |-> msatoshi],
                      Returned(connection_fee(c, msatoshi)))

RiskFee ==
    /\ ~rlast.fatal
    /\ \E amount \in Amounts, delay \in Delays32, riskfactor \in RiskFactors,
          build \in Builds :
          LET r == risk_fee(amount, delay, riskfactor)
          IN  FeeCall("risk_fee",
                      [amount |-> amount, delay |-> delay, riskfactor |-> riskfactor],
                      IF r.undefined /\ build = "trap" THEN Trapped
                      ELSE Returned(r.value))

NextFee ==
    \/ ConnectionFee
    \/ RiskFee

SpecFee == InitRoute /\ [][NextFee]_vars

-----------------------------------------------------------------------------
(* find_route.                                                             *)

ROUTING_MAX_HOPS == 3

\* dstate->id, the local node.
LocalId == pubkey("n1")

\* find_peer(dstate, id): the peer with this id, if we have one.
PeerIds == {pubkey("n2")}

find_peer(id) == IF id \in PeerIds THEN id ELSE NULL

\* node_map_first / node_map_next: the nodes of the map, one after another.
NodeOrder ==
    <<pubkey("n1"), pubkey("n2"), pubkey("n3"), pubkey("n4"), pubkey("n5")>>

in_node_map(keys, k) == k \in keys

node_map_iter(keys) == SelectSeq(NodeOrder, LAMBDA k : in_node_map(keys, k))

\* The scratch array of a node that nothing has written yet.
\* A pointer to a connection that was never set, and one that is NULL.
UninitConn == <<"uninit">>

NullConn == <<"NULL">>

FreshBfg ==
    [h \in 1..(ROUTING_MAX_HOPS + 1) |->
        [total |-> <<>>, risk |-> <<>>, prev |-> UninitConn]]

BfgOf(b, n) == IF n \in DOMAIN b THEN b[n] ELSE FreshBfg

\* clear_bfg resetting prev as well.
clear_bfg_prev_reset(g, b) ==
    [n \in g.node_map |->
        [h \in 1..(ROUTING_MAX_HOPS + 1) |->
            [total |-> INFINITE, risk |-> <<>>, prev |-> NullConn]]]

\* clear_bfg resetting nothing that an earlier call has written.
clear_bfg_kept(g, b) ==
    [n \in g.node_map |->
        [h \in 1..(ROUTING_MAX_HOPS + 1) |->
            IF n \in DOMAIN b THEN b[n][h]
            ELSE [total |-> INFINITE, risk |-> <<>>, prev |-> UninitConn]]]

\* clear_bfg(nodes): total and risk of every entry of every node are reset.
clear_bfg(g, b) ==
    [n \in g.node_map |->
        [h \in 1..(ROUTING_MAX_HOPS + 1) |->
            [total |-> INFINITE, risk |-> <<>>, prev |-> BfgOf(b, n)[h].prev]]]

\* bfg_one_hop that replaces total and risk and leaves prev as it was.
bfg_one_hop_prev_kept(g, st, nc, h, riskfactor) ==
    LET c == g.conns[nc]
        node == st.bfg[c.dst][h + 1]
        fee == connection_fee(c, node.total)
        amount == AddS64(node.total, fee)
        r == risk_fee(amount.value, c.delay, riskfactor)
        risk == AddU64(node.risk, r.value)
        ours == AddS64(amount.value, risk)
        src == st.bfg[c.src][h + 2]
        theirs == AddS64(src.total, src.risk)
    IN  [bfg |-> IF LessS64(ours.value, theirs.value)
                 THEN [st.bfg EXCEPT ![c.src][h + 2].total = amount.value,
                                     ![c.src][h + 2].risk = risk]
                 ELSE st.bfg,
         undefined |-> \/ st.undefined \/ amount.overflow \/ r.undefined
                       \/ ours.overflow \/ theirs.overflow,
         fatal |-> st.fatal]

\* One turn of the loop of bfg_one_edge: entry h of the node the connection
\* leads to is carried over the connection to entry h + 1 of its source.
\* st.bfg is the scratch; st.undefined is set once a signed addition or
\* multiplication has overflowed, and the values are then those of a
\* wrapping build.  Entry h of the C array is element h + 1 here.
bfg_one_hop(g, st, nc, h, riskfactor) ==
    LET c == g.conns[nc]
        node == st.bfg[c.dst][h + 1]
        fee == connection_fee(c, node.total)
        amount == AddS64(node.total, fee)
        r == risk_fee(amount.value, c.delay, riskfactor)
        risk == AddU64(node.risk, r.value)
        ours == AddS64(amount.value, risk)
        src == st.bfg[c.src][h + 2]
        theirs == AddS64(src.total, src.risk)
    IN  [bfg |-> IF LessS64(ours.value, theirs.value)
                 THEN [st.bfg EXCEPT ![c.src][h + 2] =
                          [total |-> amount.value, risk |-> risk, prev |-> nc]]
                 ELSE st.bfg,
         undefined |-> \/ st.undefined \/ amount.overflow \/ r.undefined
                       \/ ours.overflow \/ theirs.overflow,
         fatal |-> st.fatal]

RECURSIVE in_edges(_, _)
\* The connections that one run goes through: the in array of every node,
\* in the order of the map, from node i of the map on.
in_edges(g, i) ==
    IF i > Len(node_map_iter(g.node_map)) THEN <<>>
    ELSE g.nodes[node_map_iter(g.node_map)[i]].in \o in_edges(g, i + 1)

\* bfg_one_edge asserts that the connection leads to the node it hangs off.
in_edges_sound(g) ==
    \A n \in g.node_map : \A e \in 1..Len(g.nodes[n].in) :
        g.conns[g.nodes[n].in[e]].dst = n

RECURSIVE bfg_runs(_, _, _, _, _)
\* The runs of find_route, turn by turn: ROUTING_MAX_HOPS runs, each through
\* every connection, bfg_one_edge taking each through every h.  Turn k,
\* counted from 0, is turn k % ROUTING_MAX_HOPS of bfg_one_edge for
\* connection (k \div ROUTING_MAX_HOPS) % Len(edges).
bfg_runs(g, st, edges, k, riskfactor) ==
    IF st.fatal \/ k >= ROUTING_MAX_HOPS * Len(edges) * ROUTING_MAX_HOPS THEN st
    ELSE bfg_runs(g,
                  bfg_one_hop(g, st, edges[((k \div ROUTING_MAX_HOPS) % Len(edges)) + 1],
                              k % ROUTING_MAX_HOPS, riskfactor),
                  edges, k + 1, riskfactor)

RECURSIVE best_from_last(_, _, _)
\* best_from picking the last entry with the least total.
best_from_last(entries, best, i) ==
    IF i > ROUTING_MAX_HOPS THEN best
    ELSE best_from_last(entries,
                        IF ~LessS64(entries[best + 1].total, entries[i + 1].total) THEN i
                        ELSE best,
                        i + 1)

RECURSIVE best_from(_, _, _)
\* The loop that picks best: the first entry with the least total.
best_from(entries, best, i) ==
    IF i > ROUTING_MAX_HOPS THEN best
    ELSE best_from(entries,
                   IF LessS64(entries[i + 1].total, entries[best + 1].total) THEN i
                   ELSE best,
                   i + 1)

\* What find_route hands back: a peer with the fee and the route, nothing
\* with the line it logged, or nothing at all because the process stopped.
\* best and hop are the hop count picked and the node of the first hop,
\* where find_route got as far as the peer.
RouteVia(first, fee, route, best, hop) ==
    [kind |-> "peer", why |-> "", first |-> first, fee |-> fee, route |-> route,
     best |-> best, hop |-> hop]

NoPeer(best, hop) ==
    [kind |-> "none", why |-> "No peer", first |-> NULL, fee |-> <<>>, route |-> <<>>,
     best |-> best, hop |-> hop]

NoRouteBecause(why) ==
    [kind |-> "none", why |-> why, first |-> NULL, fee |-> <<>>, route |-> <<>>,
     best |-> 0, hop |-> NULL]

Crashed(why) ==
    [kind |-> "crash", why |-> why, first |-> NULL, fee |-> <<>>, route |-> <<>>,
     best |-> 0, hop |-> NULL]

\* A pointer that was never set, or that points at a connection since
\* freed, is followed: the access faults, or it finds what some connection
\* looks like.
Fault == <<"fault">>

Follow(g, prev, wild) == IF prev \in DOMAIN g.conns THEN prev ELSE wild

RECURSIVE route_from(_, _, _, _, _, _)
\* The loop that saves the route from the next hop on: the connections
\* walked, and the node the walk ends at.
route_from(g, b, n, best, i, wild) ==
    IF i >= best THEN [route |-> <<>>, n |-> n, fault |-> FALSE]
    ELSE LET prev == Follow(g, b[n][best - i + 1].prev, wild)
         IN  IF prev = Fault
             THEN [route |-> <<>>, n |-> n, fault |-> TRUE]
             ELSE LET rest == route_from(g, b, g.conns[prev].dst, best, i + 1, wild)
                  IN  [route |-> <<prev>> \o rest.route, n |-> rest.n,
                       fault |-> rest.fault]

\* find_route(dstate, to, msatoshi, riskfactor, fee, route) as far as the
\* runs: the scratch is reset, the node paid gets entry 0, and the runs go
\* through every connection.  Nothing of it happens when the node paid is
\* not in the map.
find_route_runs(g, b, to, msatoshi, riskfactor) ==
    IF get_node(g, to) = NULL
    THEN [bfg |-> b, undefined |-> FALSE, fatal |-> FALSE]
    ELSE bfg_runs(g,
                  [bfg |-> [clear_bfg(g, b) EXCEPT ![to][1].total = msatoshi,
                                                    ![to][1].risk = <<>>],
                   undefined |-> FALSE, fatal |-> ~in_edges_sound(g)],
                  in_edges(g, 1), 0, riskfactor)

\* find_route_pick taking the fee at the local node.
find_route_pick_fee_at_local(g, st, to, msatoshi, build, wild) ==
    LET dst == get_node(g, LocalId)
        src == get_node(g, to)
        b == st.bfg
        best == best_from(b[dst], 0, 1)
        first_prev == Follow(g, b[dst][best + 1].prev, wild)
        next == g.conns[first_prev].dst
        walk == route_from(g, b, next, best - 1, 0, wild)
        fee == SubU64(b[dst][best + 1].total, msatoshi)
        first == find_peer(next)
    IN  IF src = NULL THEN NoRouteBecause("cannot find")
        ELSE IF st.fatal THEN Crashed("assert(c->dst == node)")
        ELSE IF st.undefined /\ build = "trap" THEN Crashed("signed overflow")
        ELSE IF dst = NULL THEN Crashed("dst is NULL")
        ELSE IF ~BigLess(b[dst][best + 1].total, INFINITE)
        THEN NoRouteBecause("No route")
        ELSE IF first_prev = Fault THEN Crashed("prev is no connection")
        ELSE IF best = 0 THEN Crashed("bfg[-1]")
        ELSE IF walk.fault THEN Crashed("prev is no connection")
        ELSE IF walk.n # src THEN Crashed("assert(n == src)")
        ELSE IF first = NULL
        THEN IF best - 1 = 0 /\ wild = Fault THEN Crashed("(*route)[0]")
             ELSE NoPeer(best, next)
        ELSE RouteVia(first, fee, walk.route, best, next)

\* find_route from the runs on: best is picked, the route is saved from
\* the next hop on, and the peer of the first hop is looked up.
find_route_pick(g, st, to, msatoshi, build, wild) ==
    LET dst == get_node(g, LocalId)
        src == get_node(g, to)
        b == st.bfg
        best == best_from(b[dst], 0, 1)
        first_prev == Follow(g, b[dst][best + 1].prev, wild)
        next == g.conns[first_prev].dst
        walk == route_from(g, b, next, best - 1, 0, wild)
        fee == SubU64(b[next][best].total, msatoshi)
        first == find_peer(next)
    IN  IF src = NULL THEN NoRouteBecause("cannot find")
        ELSE IF st.fatal THEN Crashed("assert(c->dst == node)")
        ELSE IF st.undefined /\ build = "trap" THEN Crashed("signed overflow")
        ELSE IF dst = NULL THEN Crashed("dst is NULL")
        ELSE IF ~BigLess(b[dst][best + 1].total, INFINITE)
        THEN NoRouteBecause("No route")
        ELSE IF first_prev = Fault THEN Crashed("prev is no connection")
        ELSE IF best = 0 THEN Crashed("bfg[-1]")
        ELSE IF walk.fault THEN Crashed("prev is no connection")
        ELSE IF walk.n # src THEN Crashed("assert(n == src)")
        ELSE IF first = NULL
        THEN IF best - 1 = 0 /\ wild = Fault THEN Crashed("(*route)[0]")
             ELSE NoPeer(best, next)
        ELSE RouteVia(first, fee, walk.route, best, next)

\* The routes a node is given: the two connections of a payment over one
\* intermediary, the second with no delay or with a delay of 20 blocks, and
\* a direct connection that costs as much as the two or more.
DevRoute(from, to, base_fee, proportional_fee, delay) ==
    [from |-> pubkey(from), to |-> pubkey(to), base_fee |-> base_fee,
     proportional_fee |-> proportional_fee, delay |-> delay, min_blocks |-> 1]

DevRoutes ==
    {DevRoute("n1", "n2", 1000, 1000, 0),
     DevRoute("n2", "n3", 2000, 2000, 0), DevRoute("n2", "n3", 2000, 2000, 20),
     DevRoute("n1", "n3", 6004, 0, 0), DevRoute("n1", "n3", 7000, 0, 0)}

Payees == {pubkey("n1"), pubkey("n3")}

Wanted == {BigOf(1000000)}

WantedRisk == {1}

DevAddRoute ==
    /\ ~rlast.fatal
    /\ \E r \in DevRoutes :
          RouteCall("add_connection", r,
                    add_connection(Graph, r.from, r.to, r.base_fee, r.proportional_fee,
                                   r.delay, r.min_blocks),
                    HasConnection(r.from, r.to))
    /\ UNCHANGED teardown

DevRemoveRoute ==
    /\ ~rlast.fatal
    /\ \E r \in DevRoutes :
          RouteCall("remove_connection", [src |-> r.from, dst |-> r.to],
                    remove_connection(Graph, r.from, r.to), HasConnection(r.from, r.to))
    /\ UNCHANGED teardown

\* find_route taking the base fee off every connection it went through.
FindRouteWaivingFees ==
    /\ ~rlast.fatal
    /\ \E to \in Payees, msatoshi \in Wanted, riskfactor \in WantedRisk :
          \E st \in {find_route_runs(Graph, bfg, to, msatoshi, riskfactor)} :
              /\ bfg' = st.bfg
              /\ \E build \in Builds, wild \in DOMAIN conns \cup {Fault} :
                    \E result \in {find_route_pick(Graph, st, to, msatoshi, build, wild)} :
                        rlast' = [op |-> "find_route",
                                  arg |-> [to |-> to, msatoshi |-> msatoshi,
                                           riskfactor |-> riskfactor],
                                  fatal |-> result.kind = "crash", hit |-> FALSE,
                                  result |-> result]
    /\ conns' = [c \in DOMAIN conns |-> [conns[c] EXCEPT !.base_fee = 0]]
    /\ UNCHANGED <<peerVars, node_map, nodes, teardown>>

FindRoute ==
    /\ ~rlast.fatal
    /\ \E to \in Payees, msatoshi \in Wanted, riskfactor \in WantedRisk :
          \E st \in {find_route_runs(Graph, bfg, to, msatoshi, riskfactor)} :
              /\ bfg' = st.bfg
              /\ \E build \in Builds, wild \in DOMAIN conns \cup {Fault} :
                    \E result \in {find_route_pick(Graph, st, to, msatoshi, build, wild)} :
                        rlast' = [op |-> "find_route",
                                  arg |-> [to |-> to, msatoshi |-> msatoshi,
                                           riskfactor |-> riskfactor],
                                  fatal |-> result.kind = "crash", hit |-> FALSE,
                                  result |-> result]
    /\ UNCHANGED <<peerVars, node_map, nodes, conns, teardown>>

NextFind ==
    \/ DevAddRoute
    \/ DevRemoveRoute
    \/ FindRoute

SpecFind == InitRoute /\ [][NextFind]_vars

\* find_route taken turn by turn.  The routes: two ways from n1 back to n1
\* that cost the same, and the second of them with a delay of one block as
\* well.
EdgeRoutes ==
    {DevRoute("n1", "n2", 1000, 1000, 0), DevRoute("n2", "n1", 1000, 1000, 0),
     DevRoute("n1", "n3", 1000, 1000, 0), DevRoute("n3", "n1", 1000, 1000, 0),
     DevRoute("n3", "n1", 1000, 1000, 1)}

EdgePayees == {pubkey("n1"), pubkey("n2")}

\* The turns the runs of find_route take in graph g.
Turns(g) == ROUTING_MAX_HOPS * Len(in_edges(g, 1)) * ROUTING_MAX_HOPS

\* find_route is between its reset and the end of its runs.
Running ==
    /\ rlast.op \in {"find_route_start", "bfg_one_edge"}
    /\ rlast.k < Turns(Graph)

EdgeAddRoute ==
    /\ ~rlast.fatal /\ ~Running
    /\ \E r \in EdgeRoutes :
          RouteCall("add_connection", r,
                    add_connection(Graph, r.from, r.to, r.base_fee, r.proportional_fee,
                                   r.delay, r.min_blocks),
                    HasConnection(r.from, r.to))
    /\ UNCHANGED teardown

\* find_route up to its runs: the reset, and entry 0 of the node paid.
FindRouteStart ==
    /\ ~rlast.fatal /\ ~Running
    /\ \E to \in EdgePayees, msatoshi \in Wanted, riskfactor \in WantedRisk :
          /\ get_node(Graph, to) # NULL
          /\ bfg' = [clear_bfg(Graph, bfg) EXCEPT ![to][1].total = msatoshi,
                                                   ![to][1].risk = <<>>]
          /\ rlast' = [op |-> "find_route_start",
                       arg |-> [to |-> to, msatoshi |-> msatoshi,
                                riskfactor |-> riskfactor],
                       fatal |-> ~in_edges_sound(Graph), hit |-> FALSE, k |-> 0]
    /\ UNCHANGED <<peerVars, node_map, nodes, conns, teardown>>

\* One turn of the loop of bfg_one_edge, in the order of the runs.  A build
\* that traps on signed overflow stops at a turn that overflows.
BfgOneEdge ==
    /\ ~rlast.fatal /\ Running
    /\ LET edges == in_edges(Graph, 1)
           nc == edges[((rlast.k \div ROUTING_MAX_HOPS) % Len(edges)) + 1]
           h == rlast.k % ROUTING_MAX_HOPS
       IN  \E st \in {bfg_one_hop(Graph, [bfg |-> bfg, undefined |-> FALSE,
                                          fatal |-> FALSE],
                                  nc, h, rlast.arg.riskfactor)} :
           \E build \in Builds :
              /\ bfg' = IF st.undefined /\ build = "trap" THEN bfg ELSE st.bfg
              /\ rlast' = [op |-> "bfg_one_edge", arg |-> rlast.arg,
                           fatal |-> st.undefined /\ build = "trap", hit |-> FALSE,
                           k |-> rlast.k + 1, edge |-> nc, h |-> h,
                           undefined |-> st.undefined, before |-> bfg]
    /\ UNCHANGED <<peerVars, node_map, nodes, conns, teardown>>

NextEdge ==
    \/ EdgeAddRoute
    \/ FindRouteStart
    \/ BfgOneEdge

SpecEdge == InitRoute /\ [][NextEdge]_vars

\* The --add-route option.  A C string is the sequence of its characters
\* with the terminator at its end; a position past the memory that is known
\* to hold the string is memory of which nothing is known.
Nul == "nul"

Digits == <<"0", "1", "2", "3", "4", "5", "6", "7", "8", "9">>

isdigit(ch) == \E d \in 1..10 : Digits[d] = ch

DigitValue(ch) == (CHOOSE d \in 1..10 : Digits[d] = ch) - 1

isspace(ch) == ch = " "

RECURSIVE strcspn(_, _, _)
\* strcspn(s, reject): the characters from pos on before the first one of
\* reject, or the terminator.
strcspn(mem, pos, reject) ==
    IF mem[pos] = Nul \/ mem[pos] \in reject THEN 0
    ELSE 1 + strcspn(mem, pos + 1, reject)

RECURSIVE SkipSpace(_, _)
SkipSpace(mem, pos) ==
    IF isspace(mem[pos]) THEN SkipSpace(mem, pos + 1) ELSE pos

RECURSIVE SkipDigits(_, _)
SkipDigits(mem, pos) ==
    IF isdigit(mem[pos]) THEN SkipDigits(mem, pos + 1) ELSE pos

RECURSIVE DigitsValue(_, _, _, _)
DigitsValue(mem, pos, end, acc) ==
    IF pos >= end THEN acc
    ELSE DigitsValue(mem, pos + 1, end, acc * 10 + DigitValue(mem[pos]))

\* A value stored in a u32: a negated one is counted down from 2^32.
U32(n) == IF n < 0 THEN (2147483647 + n) + 2147483647 + 2 ELSE n

\* strtoul(nptr, &endp, 10): white space is skipped, a sign is taken, and
\* the digits that follow are converted; where no digit follows nothing is
\* converted, the value is 0 and endp is nptr.
strtoul(mem, pos) ==
    LET sign == SkipSpace(mem, pos)
        first == IF mem[sign] \in {"+", "-"} THEN sign + 1 ELSE sign
        end == SkipDigits(mem, first)
        v == DigitsValue(mem, first, end, 0)
    IN  IF end = first THEN [value |-> 0, endp |-> pos]
        ELSE [value |-> IF mem[sign] = "-" THEN U32(0 - v) ELSE v, endp |-> end]

\* get_slash_u32(&arg, &v): arg is a position in mem.
get_slash_u32(mem, arg) ==
    IF mem[arg] # "/" THEN [ok |-> FALSE, arg |-> arg, v |-> 0]
    ELSE LET len == strcspn(mem, arg + 1, {"/"})
             n == strtoul(mem, arg + 1)
         IN  [ok |-> n.endp = arg + 1 + len, arg |-> arg + 1 + len, v |-> n.value]

\* The texts that are public keys, one character standing for the 66 of a
\* key in hex, and the keys they are.
KeyTexts == {<<"a">>, <<"b">>}

pubkey_from_hexstr(mem, pos, len) ==
    LET text == SubSeq(mem, pos, pos + len - 1)
    IN  IF text = <<"a">> THEN pubkey("n1")
        ELSE IF text = <<"b">> THEN pubkey("n2")
        ELSE NULL

Err(msg) == [err |-> msg]

\* opt_add_route(arg, dstate).  mem is the argument with its terminator
\* and what the memory behind it holds; a read past mem faults.
opt_add_route(mem, g) ==
    LET len1 == strcspn(mem, 1, {"/"})
        src == pubkey_from_hexstr(mem, 1, len1)
        arg2 == 1 + len1 + 1
        len2 == strcspn(mem, arg2, {"/"})
        dst == pubkey_from_hexstr(mem, arg2, len2)
        base == get_slash_u32(mem, arg2 + len2)
        var == get_slash_u32(mem, base.arg)
        delay == get_slash_u32(mem, var.arg)
        minblocks == get_slash_u32(mem, delay.arg)
    IN  IF src = NULL THEN [g |-> g, result |-> Err("Bad src pubkey")]
        ELSE IF arg2 > Len(mem) THEN [g |-> [g EXCEPT !.fatal = TRUE], result |-> Err("fault")]
        ELSE IF dst = NULL THEN [g |-> g, result |-> Err("Bad dst pubkey")]
        ELSE IF ~base.ok \/ ~var.ok \/ ~delay.ok \/ ~minblocks.ok
        THEN [g |-> g, result |-> Err("Bad base/var/delay/minblocks")]
        ELSE IF mem[minblocks.arg] # Nul
        THEN [g |-> g, result |-> Err("Data after minblocks")]
        ELSE [g |-> add_connection(g, src, dst, base.v, var.v, delay.v, minblocks.v),
              result |-> NULL]

RECURSIVE JoinSlash(_)
JoinSlash(fields) ==
    IF Len(fields) = 0 THEN <<>>
    ELSE IF Len(fields) = 1 THEN fields[1]
    ELSE fields[1] \o <<"/">> \o JoinSlash(Tail(fields))

\* The fields tried: numbers, and what is no number.
NumberTexts == {<<"7">>, <<"1", "2">>}

OddTexts ==
    {<<>>, <<" ", "7">>, <<"+", "7">>, <<"-", "0">>, <<"7", "x">>, <<"x">>,
     <<" ">>, <<"7", " ">>}

\* The arguments tried: the six fields with at most one of the numbers
\* odd, a field short or over, text after the last, and keys that are none.
OptArgs ==
    {JoinSlash(<<k[1], k[2], n, <<"7">>, <<"7">>, <<"7">>>>) :
        k \in {<<<<"a">>, <<"b">>>>, <<<<"b">>, <<"a">>>>}, n \in NumberTexts}
    \cup {JoinSlash([[i \in 1..6 |-> <<"7">>] EXCEPT ![1] = <<"a">>, ![2] = <<"b">>,
                                                ![j] = t]) :
            j \in 3..6, t \in OddTexts}
    \cup {JoinSlash(SubSeq(<<<<"a">>, <<"b">>, <<"7">>, <<"7">>, <<"7">>, <<"7">>,
                            <<"7">>>>, 1, n)) : n \in 0..7}
    \cup {JoinSlash(<<<<"g">>, <<"b">>, <<"7">>, <<"7">>, <<"7">>, <<"7">>>>),
          JoinSlash(<<<<"a">>, <<"g">>, <<"7">>, <<"7">>, <<"7">>, <<"7">>>>),
          JoinSlash(<<<<>>, <<"b">>, <<"7">>, <<"7">>, <<"7">>, <<"7">>>>),
          JoinSlash(<<<<"a">>, <<>>, <<"7">>, <<"7">>, <<"7">>, <<"7">>>>),
          JoinSlash(<<<<"a">>, <<"b">>, <<"7">>, <<"7">>, <<"7">>, <<"7">>, <<>>>>)}

\* What the memory behind the terminator of the argument holds: nothing
\* that can be read, or the next argument of the command line.
Beyond == {<<>>, JoinSlash(<<<<"b">>, <<"7">>, <<"7">>, <<"7">>, <<"7">>>>) \o <<Nul>>}

OptAddRoute ==
    /\ ~rlast.fatal
    /\ \E arg \in OptArgs, beyond \in Beyond :
          \E r \in {opt_add_route(arg \o <<Nul>> \o beyond, Graph)} :
              /\ node_map' = r.g.node_map
              /\ nodes' = r.g.nodes
              /\ conns' = r.g.conns
              /\ rlast' = [op |-> "opt_add_route", arg |-> arg, fatal |-> r.g.fatal,
                           hit |-> FALSE, result |-> r.result]
    /\ UNCHANGED <<peerVars, bfg, teardown>>

NextOpt ==
    \/ OptAddRoute
    \/ DevRemoveRoute

SpecOpt == InitRoute /\ [][NextOpt]_vars

\* Two ways from n2 to n4 over one node each: over n5 for nothing but with a
\* delay of a block on each connection, over n3 for 3800 and without
\* delay; n1 reaches n2 for a thousandth, and n4 itself for 2000.
AmountRoutes ==
    {DevRoute("n5", "n4", 0, 0, 1), DevRoute("n2", "n5", 0, 0, 1),
     DevRoute("n3", "n4", 3800, 0, 0), DevRoute("n2", "n3", 0, 0, 0),
     DevRoute("n1", "n2", 0, 1000, 0), DevRoute("n1", "n4", 2000, 0, 0)}

AmountPayees == {pubkey("n4")}

AmountRisk == {1000000}

AmountAddRoute ==
    /\ ~rlast.fatal
    /\ \E r \in AmountRoutes :
          RouteCall("add_connection", r,
                    add_connection(Graph, r.from, r.to, r.base_fee, r.proportional_fee,
                                   r.delay, r.min_blocks),
                    HasConnection(r.from, r.to))
    /\ UNCHANGED teardown

AmountFindRoute ==
    /\ ~rlast.fatal
    /\ \E to \in AmountPayees, msatoshi \in Wanted, riskfactor \in AmountRisk :
          \E st \in {find_route_runs(Graph, bfg, to, msatoshi, riskfactor)} :
              /\ bfg' = st.bfg
              /\ \E build \in Builds, wild \in DOMAIN conns \cup {Fault} :
                    \E result \in {find_route_pick(Graph, st, to, msatoshi, build, wild)} :
                        rlast' = [op |-> "find_route",
                                  arg |-> [to |-> to, msatoshi |-> msatoshi,
                                           riskfactor |-> riskfactor],
                                  fatal |-> result.kind = "crash", hit |-> FALSE,
                                  result |-> result, undefined |-> st.undefined]
    /\ UNCHANGED <<peerVars, node_map, nodes, conns, teardown>>

NextAmount ==
    \/ AmountAddRoute
    \/ AmountFindRoute

SpecAmount == InitRoute /\ [][NextAmount]_vars

-----------------------------------------------------------------------------
(* Properties.                                                             *)

ChannelTotal(cs) == total_funds(cs.a) + total_funds(cs.b)

\* What the claims call the installed state of the peer.
Installed(p) ==
    [cstate |-> p.cstate, us_commit |-> p.us.commit, them_commit |-> p.them.commit,
     us_revocation_hash |-> p.us.revocation_hash,
     them_revocation_hash |-> p.them.revocation_hash,
     num_htlcs |-> p.num_htlcs]

\* C1: fund conservation.  Whenever the peer has a cstate, the funds of its
\* two sides add up to the anchor amount the channel was funded with, and
\* no event replaces a cstate by one with a different total.
C1_FundConservation ==
    /\ peer.cstate # NULL => ChannelTotal(peer.cstate) = peer.anchor.satoshis * 1000
    /\ (peer.cstate # NULL /\ last.pre.cstate # NULL)
          => ChannelTotal(peer.cstate) = ChannelTotal(last.pre.cstate)

\* update_signature has installed a state that holds an HTLC of the peer.
C1_Witness ==
    /\ last.op = "update_signature" /\ running
    /\ peer.num_htlcs = 1
    /\ peer.cstate # last.pre.cstate
    /\ Len(peer.cstate.b.htlcs) = 1

\* C2: at most one proposal in flight.  An update_add_htlc that arrives
\* while peer->current_htlc is set leaves that proposal as it was.
C2_PendingNotReplaced ==
    (last.op = "update_add_htlc" /\ last.pre.current_htlc # NULL)
        => peer.current_htlc = last.pre.current_htlc

\* accept_pkt_htlc_update ran with an affordable amount while a proposal
\* was set, and stopped at its assert.
C2_Witness ==
    /\ last.op = "update_add_htlc"
    /\ last.pre.current_htlc # NULL
    /\ last.via = "assert"

\* C3: a second update_add_htlc while a proposal is pending is answered by
\* an error packet, with the process running and the proposal and the
\* cstate unchanged.
C3_SecondAddRejected ==
    (last.op = "update_add_htlc" /\ last.pre.current_htlc # NULL)
        => /\ running
           /\ last.pkt # NULL
           /\ last.pkt.pkt_case = "PKT_ERROR"
           /\ peer.current_htlc = last.pre.current_htlc
           /\ peer.cstate = last.pre.cstate

\* C4: signature before mutation.  When a handler that receives a
\* signature fails on it, the anchor outpoint, the installed state and the
\* stored peer signature are what they were before the handler ran.
C4_SigBeforeMutation ==
    (/\ last.op \in {"open_anchor", "open_commit_sig", "update_accept", "update_signature"}
     /\ last.problem \in {"Malformed signature", "Bad signature"})
        => /\ peer.anchor = last.pre.anchor
           /\ Installed(peer) = Installed(last.pre)
           /\ peer.cur_commit_theirsig = last.pre.cur_commit_theirsig

\* C5: update_signature is all-or-nothing.  It installs the staged state
\* only when the signature in the packet verifies over our staged commit
\* and the preimage in the packet hashes to the installed
\* them.revocation_hash; when either check fails, the installed state and
\* the pending record are what they were before the handler ran.
C5_AllOrNothing ==
    last.op = "update_signature" =>
        LET pre == last.pre
            cur == pre.current_htlc
            verified ==
                /\ proto_to_signature(last.arg.sig).ok
                /\ check_tx_sig(cur.our_commit, pre.anchor.redeemscript,
                                pre.them.commitkey,
                                [stype |-> SIGHASH_ALL, sig |-> last.arg.sig])
                /\ sha256(last.arg.revocation_preimage) = pre.them.revocation_hash
        IN  /\ Installed(peer) # Installed(pre) => verified
            /\ ~verified =>
                  /\ Installed(peer) = Installed(pre)
                  /\ peer.current_htlc = cur

\* C6: an update_complete is accepted only when its preimage hashes to the
\* revocation hash of the peer's commitment that the update replaced.
C6_CompleteChecksPreimage ==
    (last.op = "update_complete" /\ last.via = "return")
        => sha256(last.arg.revocation_preimage) = last.replaced

\* C7: disclosure order.  Every packet queued with one of our revocation
\* preimages carries the preimage of an index n >= 0 below the index of the
\* installed commitment, never the preimage of the installed revocation
\* hash, and the installed commitment is the one at index num_htlcs, over
\* which the peer's recorded signature verifies.
C7_DisclosureOrder ==
    \A pkt \in sent :
        pkt.pkt_case \in {"PKT_UPDATE_SIGNATURE", "PKT_UPDATE_COMPLETE"} =>
            /\ pkt.revocation_preimage.n >= 0
            /\ pkt.revocation_preimage.n < peer.num_htlcs
            /\ sha256(pkt.revocation_preimage) # peer.us.revocation_hash
            /\ peer.us.revocation_hash = peer_get_revocation_hash(peer, peer.num_htlcs)
            /\ peer.us.commit.revocation_hash = peer.us.revocation_hash
            /\ check_tx_sig(peer.us.commit, peer.anchor.redeemscript,
                            peer.them.commitkey, peer.current_htlc.their_sig)

\* An update_complete with our preimage has been queued.
C7_Witness ==
    \E pkt \in sent :
        /\ pkt.pkt_case = "PKT_UPDATE_COMPLETE"
        /\ pkt.revocation_preimage = revocation_preimage("us", 0)

\* C8: a failure a handler reports through pkt_err produces an error packet
\* with the problem string and leaves the process running; the process
\* stops only on a violation of fund conservation.
C8_ErrorPacketNoAbort ==
    /\ last.via = "pkt_err" => (running /\ last.pkt = PKT_ERROR(last.problem))
    /\ ~running => last.via = "fatal"

OppositeAnchor(anch, ours) ==
    \/ anch = OPEN_CHANNEL__ANCHOR_OFFER__WILL_CREATE_ANCHOR /\ ours = CMD_OPEN_WITHOUT_ANCHOR
    \/ anch = OPEN_CHANNEL__ANCHOR_OFFER__WONT_CREATE_ANCHOR /\ ours = CMD_OPEN_WITH_ANCHOR

SameAnchor(anch, ours) ==
    \/ anch = OPEN_CHANNEL__ANCHOR_OFFER__WILL_CREATE_ANCHOR /\ ours = CMD_OPEN_WITH_ANCHOR
    \/ anch = OPEN_CHANNEL__ANCHOR_OFFER__WONT_CREATE_ANCHOR /\ ours = CMD_OPEN_WITHOUT_ANCHOR

\* C9: accept_pkt_open returns NULL exactly when the delay is in seconds
\* and within rel_locktime_max, min_depth is within anchor_confirms_max,
\* the fee is at least commitment_fee_min, the anchor offer is the opposite
\* of ours and both keys parse; a delay in blocks goes to
\* pkt_err("Delay in blocks not accepted"), and an anchor offer equal to
\* ours in a packet that passed the delay, depth and fee checks goes to
\* pkt_err("Only one side can offer anchor").
C9_OpenValidation ==
    last.op = "open" =>
        LET o == last.arg
            ours == last.pre.us.offer_anchor
            policy ==
                /\ o.delay.locktime_case = LOCKTIME__LOCKTIME_SECONDS
                /\ o.delay.seconds <= rel_locktime_max
                /\ o.min_depth <= anchor_confirms_max
                /\ o.commitment_fee >= commitment_fee_min
        IN  /\ last.via = "return" <=>
                  /\ policy
                  /\ OppositeAnchor(o.anch, ours)
                  /\ o.commit_key # BadKey
                  /\ o.final_key # BadKey
            /\ last.via # "return" => last.via = "pkt_err"
            /\ o.delay.locktime_case = LOCKTIME__LOCKTIME_BLOCKS
                  => last.problem = "Delay in blocks not accepted"
            /\ (policy /\ SameAnchor(o.anch, ours))
                  => last.problem = "Only one side can offer anchor"

\* An open whose delay, depth and fee sit on their limits was accepted.
C9_Witness ==
    /\ last.op = "open" /\ last.via = "return"
    /\ last.arg.delay.seconds = rel_locktime_max
    /\ last.arg.min_depth = anchor_confirms_max
    /\ last.arg.commitment_fee = commitment_fee_min

\* C10: once an open packet has been handled, accepted or not, the recorded
\* them.offer_anchor differs from us.offer_anchor.
C10_OfferAnchorDiffers ==
    (last.op = "open" \/ state \notin {"INIT", "OPEN_WAIT_FOR_OPEN"})
        => peer.them.offer_anchor # peer.us.offer_anchor

\* The commitment fee both sides end up with: the greater of the two.
AgreedFee(p) == commit_fee(p.them.commit_fee, p.us.commit_fee)

\* C11: initial funding as the non-funder sees it.  After an accepted
\* open_anchor the installed cstate gives their side (b, the funder) the
\* anchor amount less the fee as pay_msat and the fee as fee_msat, and
\* gives our side (a) nothing, the fee being the greater of the two
\* proposed commitment fees.
C11_InitialFunding ==
    (last.op = "open_anchor" /\ last.via = "return") =>
        LET fee == IF last.pre.them.commit_fee > last.pre.us.commit_fee
                   THEN last.pre.them.commit_fee ELSE last.pre.us.commit_fee
        IN  /\ peer.cstate.b.pay_msat = last.arg.amount * 1000 - fee * 1000
            /\ peer.cstate.b.fee_msat = fee * 1000
            /\ peer.cstate.b.htlcs = <<>>
            /\ peer.cstate.a = [pay_msat |-> 0, fee_msat |-> 0, htlcs |-> <<>>]

\* An open_anchor was accepted where the peer proposed the greater fee.
C11_Witness ==
    /\ last.op = "open_anchor" /\ last.via = "return"
    /\ last.pre.them.commit_fee > last.pre.us.commit_fee
    /\ peer.cstate.b.pay_msat > 0

\* C12: an anchor that cannot cover the fee.  An open_anchor whose amount
\* is below the commitment fee goes to pkt_err("Insufficient funds for
\* fee"); the peer has no cstate and no commitment transaction afterwards,
\* the state machine stays where it was and no open_commit_sig is queued.
C12_AnchorBelowFee ==
    (last.op = "open_anchor" /\ last.arg.amount < AgreedFee(last.pre)) =>
        /\ last.via = "pkt_err"
        /\ last.problem = "Insufficient funds for fee"
        /\ peer.cstate = NULL
        /\ peer.us.commit = NULL
        /\ peer.them.commit = NULL
        /\ state # "OPEN_WAITING_ANCHOR_CONF"
        /\ \A pkt \in sent : pkt.pkt_case # "PKT_OPEN_COMMIT_SIG"

\* An open_anchor funded with less than the fee has been handled.
C12_Witness ==
    /\ last.op = "open_anchor"
    /\ last.arg.amount < AgreedFee(last.pre)
    /\ last.problem = "Insufficient funds for fee"

\* C13: staging of the peer's HTLC.  An accepted update_add_htlc leaves a
\* proposal whose cstate has the HTLC appended to their side (b), their
\* pay_msat reduced and the channel total unchanged, and whose revocation
\* hash of ours is the one at index num_htlcs+1; the installed state is
\* what it was.
C13_HtlcStaged ==
    (last.op = "update_add_htlc" /\ last.via = "return") =>
        LET pre == last.pre
            cur == peer.current_htlc
            u == last.arg
        IN  /\ cur # NULL
            /\ cur.cstate.b.htlcs =
                  Append(pre.cstate.b.htlcs,
                         [msatoshis |-> u.amount_msat,
                          expiry |-> proto_to_abs_locktime(u.expiry).locktime,
                          rhash |-> u.r_hash])
            /\ cur.cstate.a.htlcs = pre.cstate.a.htlcs
            /\ cur.cstate.b.pay_msat < pre.cstate.b.pay_msat
            /\ ChannelTotal(cur.cstate) = ChannelTotal(pre.cstate)
            /\ cur.our_revocation_hash = sha256(revocation_preimage("us", pre.num_htlcs + 1))
            /\ Installed(peer) = Installed(pre)

\* An update_add_htlc has been accepted and staged.
C13_Witness ==
    /\ last.op = "update_add_htlc" /\ last.via = "return"
    /\ Len(peer.current_htlc.cstate.b.htlcs) = 1
    /\ peer.cstate.b.htlcs = <<>>

\* What their side can spend on an HTLC: its pay_msat (the fee it pays as
\* funder stays reserved).
TheyCanAfford(p, msat) == msat <= p.cstate.b.pay_msat

C15_UpdateAcceptInstalls ==
    (last.op = "update_accept" /\ last.via = "return") =>
        LET pre == last.pre
            cur == pre.current_htlc
            txs == make_commit_txs(pre, cur.our_revocation_hash,
                                   last.arg.revocation_hash, cur.cstate)
        IN  /\ peer.cstate = cur.cstate
            /\ peer.us.commit = txs.ours
            /\ peer.them.commit = txs.theirs
            /\ peer.us.revocation_hash = cur.our_revocation_hash
            /\ peer.them.revocation_hash = last.arg.revocation_hash
            /\ peer.num_htlcs = pre.num_htlcs + 1
            /\ check_tx_sig(txs.ours, pre.anchor.redeemscript, pre.them.commitkey,
                            [stype |-> SIGHASH_ALL, sig |-> last.arg.sig])

\* An update_accept that brought a new revocation hash of the peer was
\* accepted.
C15_Witness ==
    /\ last.op = "update_accept" /\ last.via = "return"
    /\ peer.them.revocation_hash # last.pre.them.revocation_hash
    /\ Len(peer.cstate.a.htlcs) = 1

\* C16: the pending proposal is destroyed.  After an update_accept or an
\* update_signature the peer has no pending proposal, and when the packet
\* was rejected the installed state is the one from before the proposal.
C16_PendingDestroyed ==
    last.op \in {"update_accept", "update_signature"} =>
        /\ peer.current_htlc = NULL
        /\ last.via # "return" => Installed(peer) = Installed(last.pre)

\* C17: revocation hashes are not reused.  The installed us.revocation_hash
\* is the one at chain index num_htlcs, and an event that installs another
\* one installs one of a greater index.
C17_RevocationNotReused ==
    /\ peer.us.revocation_hash = sha256(revocation_preimage("us", peer.num_htlcs))
    /\ peer.us.revocation_hash # last.pre.us.revocation_hash =>
          /\ peer.us.revocation_hash.sha256.n > last.pre.us.revocation_hash.sha256.n
          /\ peer.num_htlcs = last.pre.num_htlcs + 1

\* update_to_new_htlcs has installed the hash staged at index 1.
C17_Witness ==
    /\ last.op \in {"update_accept", "update_signature"} /\ last.via = "return"
    /\ peer.us.revocation_hash # last.pre.us.revocation_hash
    /\ peer.num_htlcs = 1

-----------------------------------------------------------------------------
(* Properties of the routing graph.                                        *)

\* How often nc is in the array.
Occurrences(arr, nc) == Cardinality({i \in 1..Len(arr) : arr[i] = nc})

\* C18: edge upsert.  The graph never holds two connections with the same
\* source and destination, and after add_connection(from, to, ...) both
\* nodes exist and the connection from `from` to `to` has the base_fee,
\* proportional_fee, delay and min_blocks of that call.
C18_EdgeUpsert ==
    /\ \A c1 \in DOMAIN conns : \A c2 \in DOMAIN conns :
          (conns[c1].src = conns[c2].src /\ conns[c1].dst = conns[c2].dst) => c1 = c2
    /\ rlast.op = "add_connection" =>
          /\ ~rlast.fatal
          /\ {rlast.arg.from, rlast.arg.to} \subseteq node_map
          /\ {rlast.arg.from, rlast.arg.to} \subseteq DOMAIN nodes
          /\ \E c \in DOMAIN conns :
                conns[c] = [src |-> rlast.arg.from,
                            dst |-> rlast.arg.to,
                            base_fee |-> rlast.arg.route.base_fee,
                            proportional_fee |-> rlast.arg.route.proportional_fee,
                            delay |-> rlast.arg.route.delay,
                            min_blocks |-> rlast.arg.route.min_blocks]

\* add_connection met a connection with other fees and there is still one
\* connection for the pair.
C18_Witness ==
    /\ rlast.op = "add_connection" /\ rlast.hit
    /\ Cardinality({c \in DOMAIN conns : /\ conns[c].src = rlast.arg.from
                                         /\ conns[c].dst = rlast.arg.to}) = 1

\* Every live connection is once in the out array of its source and once
\* in the in array of its destination, and the arrays hold nothing else.
ListsConsistent ==
    /\ ~rlast.fatal
    /\ \A c \in DOMAIN conns :
          /\ conns[c].src \in DOMAIN nodes
          /\ conns[c].dst \in DOMAIN nodes
          /\ Occurrences(nodes[conns[c].src].out, c) = 1
          /\ Occurrences(nodes[conns[c].dst].in, c) = 1
    /\ \A n \in DOMAIN nodes :
          /\ \A i \in 1..Len(nodes[n].in) :
                nodes[n].in[i] \in DOMAIN conns /\ conns[nodes[n].in[i]].dst = n
          /\ \A i \in 1..Len(nodes[n].out) :
                nodes[n].out[i] \in DOMAIN conns /\ conns[nodes[n].out[i]].src = n

\* A step that destroys connections leaves the other entries of every
\* array in the order they had.
ListOrderKept ==
    LET Live(c) == c \in DOMAIN conns'
    IN  DOMAIN conns' \subseteq DOMAIN conns =>
            \A n \in DOMAIN nodes \cap DOMAIN nodes' :
                /\ nodes'[n].in = SelectSeq(nodes[n].in, Live)
                /\ nodes'[n].out = SelectSeq(nodes[n].out, Live)

\* C19: edge list consistency.  After every call (add_node,
\* add_connection, remove_connection, the freeing of a node or of a
\* connection) each live connection is exactly once in the out array of
\* its source and exactly once in the in array of its destination, no
\* array holds a freed connection, and a call that destroys connections
\* keeps the order of the entries that remain.
C19_EdgeLists == [][ListsConsistent' /\ ListOrderKept]_vars

\* remove_connection took a connection out of an in array that keeps two
\* entries, with a connection from a node to itself in the graph.
C19_Witness ==
    /\ rlast.op = "remove_connection" /\ rlast.hit
    /\ Len(nodes[rlast.arg.dst].in) = 2
    /\ \E c \in DOMAIN conns : conns[c].src = conns[c].dst

\* C20: the frame of remove_connection.  remove_connection(src, dst) takes
\* the connection from src to dst, if there is one, out of the graph and
\* out of the two arrays it is in, and leaves the node map, the nodes, the
\* other connections and their fields as they are; without such a
\* connection it changes nothing, and a second call changes nothing.
C20_RemoveFrame ==
    [][rlast'.op = "remove_connection" =>
          LET src == rlast'.arg.src
              dst == rlast'.arg.dst
              Kept(c) == ~(conns[c].src = src /\ conns[c].dst = dst)
              after == [node_map |-> node_map', nodes |-> nodes', conns |-> conns',
                        fatal |-> rlast'.fatal]
          IN  /\ ~rlast'.fatal
              /\ DOMAIN conns' = {c \in DOMAIN conns : Kept(c)}
              /\ \A c \in DOMAIN conns' : conns'[c] = conns[c]
              /\ node_map' = node_map
              /\ DOMAIN nodes' = DOMAIN nodes
              /\ \A n \in DOMAIN nodes :
                    nodes'[n] = [nodes[n] EXCEPT !.in = SelectSeq(@, Kept),
                                                 !.out = SelectSeq(@, Kept)]
              /\ remove_connection(after, src, dst) = after]_vars

\* remove_connection has destroyed a connection and others are left.
C20_Witness ==
    /\ rlast.op = "remove_connection" /\ rlast.hit
    /\ Cardinality(DOMAIN conns) = 2
    /\ ~HasConnection(rlast.arg.src, rlast.arg.dst)

\* C21: add_node upserts.  After add_node(pk, hostname, port) the node map
\* holds pk, with one node per key; the node of pk has that hostname and
\* port; it has empty in and out arrays when the key was new and the arrays
\* it had when the key was known; the other nodes and the connections are
\* as they were.
C21_AddNodeUpserts ==
    [][rlast'.op = "add_node" =>
          LET pk == rlast'.arg.pk
          IN  /\ ~rlast'.fatal
              /\ node_map' = node_map \cup {pk}
              /\ DOMAIN nodes' = node_map'
              /\ \A k \in node_map' : nodes'[k].id = k
              /\ nodes'[pk].hostname = rlast'.arg.hostname
              /\ nodes'[pk].port = rlast'.arg.port
              /\ nodes'[pk].in = (IF pk \in node_map THEN nodes[pk].in ELSE <<>>)
              /\ nodes'[pk].out = (IF pk \in node_map THEN nodes[pk].out ELSE <<>>)
              /\ \A k \in node_map \ {pk} : nodes'[k] = nodes[k]
              /\ conns' = conns]_vars

\* add_node was called for a node that connections lead to and from.
C21_Witness ==
    /\ rlast.op = "add_node"
    /\ nodes[rlast.arg.pk].in # <<>>
    /\ nodes[rlast.arg.pk].out # <<>>
    /\ nodes[rlast.arg.pk].hostname = rlast.arg.hostname

\* C22: connection_fee.  connection_fee(c, m) is base_fee plus
\* proportional_fee * m / 1000000 computed as a signed 64-bit value, for
\* negative proportional fees too, whenever the product fits an s64, and
\* INFINITE whenever it does not.
C22_ConnectionFee ==
    rlast.op = "connection_fee" =>
        rlast.result = Returned(connection_fee_signed(rlast.arg.c, rlast.arg.msatoshi))

\* C23: risk_fee.  risk_fee returns, and what it returns is exactly 1 for
\* a negative amount, whatever the delay and the risk factor, and at least
\* 1 for an amount that is not negative.
C23_RiskFee ==
    rlast.op = "risk_fee" =>
        /\ ~rlast.result.trapped
        /\ Negative(rlast.arg.amount) => rlast.result.value = BigOf(1)
        /\ ~Negative(rlast.arg.amount) => ~BigLess(rlast.result.value, BigOf(1))

RECURSIVE Reach(_, _, _, _)
\* A directed path of at most hops connections leads from one node to the other.
Reach(g, from, to, hops) ==
    \/ from = to /\ from \in g.node_map
    \/ /\ hops > 0
       /\ \E c \in DOMAIN g.conns :
             g.conns[c].src = from /\ Reach(g, g.conns[c].dst, to, hops - 1)

\* C24: no path, no route.  Whenever no directed path of at most
\* ROUTING_MAX_HOPS connections leads from the local node to the node to
\* pay, find_route returns no route.
C24_NoPathNoRoute ==
    rlast.op = "find_route" /\ ~Reach(Graph, LocalId, rlast.arg.to, ROUTING_MAX_HOPS)
        => rlast.result.kind = "none"

RECURSIVE SentOver(_, _, _)
\* What has to go into a route for msatoshi to come out of it.
SentOver(g, route, msatoshi) ==
    IF route = <<>> THEN msatoshi
    ELSE LET rest == SentOver(g, Tail(route), msatoshi)
         IN  AddS64(rest, connection_fee(g.conns[Head(route)], rest)).value

C26_Pick ==
    rlast.op = "find_route" /\ rlast.result.hop # NULL
        => LET e == bfg[LocalId]
               best == rlast.result.best
           IN  /\ best \in 0..ROUTING_MAX_HOPS
               /\ \A i \in 0..ROUTING_MAX_HOPS : ~LessS64(e[i + 1].total, e[best + 1].total)
               /\ \A i \in 0..(best - 1) : LessS64(e[best + 1].total, e[i + 1].total)
               /\ rlast.result.hop = conns[e[best + 1].prev].dst
               /\ (/\ rlast.arg.to = pubkey("n3")
                   /\ ~HasConnection(pubkey("n1"), pubkey("n3"))) =>
                      best = 2 /\ rlast.result.hop = pubkey("n2")

\* The route over n2 was picked though the direct connection was there.
C26_Witness ==
    /\ rlast.op = "find_route" /\ rlast.result.kind = "peer"
    /\ rlast.result.best = 2 /\ rlast.result.hop = pubkey("n2")
    /\ HasConnection(pubkey("n1"), pubkey("n3"))
    /\ LessS64(bfg[LocalId][3].total, bfg[LocalId][2].total)

\* C27: the relaxation step.  For a connection e from u to n and each h
\* below ROUTING_MAX_HOPS, bfg_one_edge replaces entry h + 1 of u by
\* (total of entry h of n + fee, risk of entry h of n + risk, e) only when
\* that total plus that risk is strictly less than total plus risk of entry
\* h + 1 of u; on an equal cost the entry stays, every other entry stays,
\* and no entry outside 0..ROUTING_MAX_HOPS is there to be read or written.
C27_RelaxationStep ==
    rlast.op = "bfg_one_edge" /\ ~rlast.fatal =>
        LET e == rlast.edge
            c == conns[e]
            n == rlast.before[c.dst][rlast.h + 1]
            u == rlast.before[c.src][rlast.h + 2]
            fee == connection_fee(c, n.total)
            total == BigAdd(n.total, fee)
            risk == BigAdd(n.risk, risk_fee(total, c.delay, rlast.arg.riskfactor).value)
        IN  /\ bfg = [rlast.before EXCEPT ![c.src][rlast.h + 2] =
                         IF BigLess(BigAdd(total, risk), BigAdd(u.total, u.risk))
                         THEN [total |-> total, risk |-> risk, prev |-> e]
                         ELSE @]
            /\ \A k \in DOMAIN bfg : DOMAIN bfg[k] = 1..(ROUTING_MAX_HOPS + 1)

\* C28: routing errors are results.  find_route for a node that is not in
\* the map returns no route, and so does find_route where the node of the
\* first hop is no peer; the process goes on.
C28_ErrorsAreResults ==
    rlast.op = "find_route" =>
        /\ rlast.arg.to \notin node_map => rlast.result.kind = "none"
        /\ rlast.result.why # "(*route)[0]"

RECURSIVE SplitSlash(_, _)
\* The fields of a text, a slash between each two; cur is the field begun.
SplitSlash(text, cur) ==
    IF Len(text) = 0 THEN <<cur>>
    ELSE IF Head(text) = "/" THEN <<cur>> \o SplitSlash(Tail(text), <<>>)
    ELSE SplitSlash(Tail(text), Append(cur, Head(text)))

Decimal(text) == Len(text) > 0 /\ \A i \in 1..Len(text) : isdigit(text[i])

\* src/dst/base/var/delay/minblocks: two keys, four numbers, no more.
WellFormedRoute(text) ==
    LET f == SplitSlash(text, <<>>)
    IN  /\ Len(f) = 6
        /\ f[1] \in KeyTexts /\ f[2] \in KeyTexts
        /\ \A i \in 3..6 : Decimal(f[i])

\* C29: opt_add_route inserts a connection exactly when its argument is
\* src/dst/base/var/delay/minblocks with two public keys, four non-empty
\* decimal numbers and nothing after them; for every other text it returns
\* an error and leaves the graph as it was.
C29_OptAddRoute ==
    [][rlast'.op = "opt_add_route" =>
          /\ (rlast'.result = NULL) <=> WellFormedRoute(rlast'.arg)
          /\ rlast'.result # NULL => /\ ~rlast'.fatal
                                     /\ UNCHANGED <<node_map, nodes, conns>>]_vars

\* What the runs of the last find_route leave of a scratch that was reset
\* to (INFINITE, 0, NULL) throughout.
RunsFromReset ==
    bfg_runs(Graph,
             [bfg |-> [clear_bfg_prev_reset(Graph, bfg) EXCEPT
                          ![rlast.arg.to][1].total = rlast.arg.msatoshi],
              undefined |-> FALSE, fatal |-> FALSE],
             in_edges(Graph, 1), 0, rlast.arg.riskfactor)

C33_DestroyedNodeGone ==
    rlast.op = "free_node" /\ ~rlast.fatal =>
        LET node == rlast.arg.node
        IN  /\ \A c \in DOMAIN conns : conns[c].src # node /\ conns[c].dst # node
            /\ \A k \in DOMAIN nodes :
                  /\ \A i \in 1..Len(nodes[k].in) : nodes[k].in[i] \in DOMAIN conns
                  /\ \A i \in 1..Len(nodes[k].out) : nodes[k].out[i] \in DOMAIN conns
            /\ get_node(Graph, node) = NULL
            /\ \A i \in 1..Len(node_map_iter(node_map)) : node_map_iter(node_map)[i] # node

C35_AmountsConsistent ==
    rlast.op = "find_route" /\ ~rlast.fatal /\ rlast.arg.to \in node_map =>
        /\ \A u \in node_map : \A h \in 1..ROUTING_MAX_HOPS :
              LET e == bfg[u][h + 1]
              IN  BigLess(e.total, INFINITE) /\ e.prev \in DOMAIN conns =>
                      LET n == bfg[conns[e.prev].dst][h]
                      IN  e.total = AddS64(n.total,
                                           connection_fee(conns[e.prev], n.total)).value
        /\ rlast.result.kind = "peer" =>
              bfg[LocalId][rlast.result.best + 1].total
                = SentOver(Graph, <<bfg[LocalId][rlast.result.best + 1].prev>>
                                     \o rlast.result.route, rlast.arg.msatoshi)

Reverse(s) == [i \in 1..Len(s) |-> s[Len(s) + 1 - i]]

\* What find_route gives when its runs go through the nodes, and the in
\* array of each, in the order edges.
FindRouteVisiting(edges) ==
    find_route_pick(Graph,
                    bfg_runs(Graph,
                             [bfg |-> [clear_bfg(Graph, bfg) EXCEPT
                                          ![rlast.arg.to][1].total = rlast.arg.msatoshi],
                              undefined |-> FALSE, fatal |-> FALSE],
                             edges, 0, rlast.arg.riskfactor),
                    rlast.arg.to, rlast.arg.msatoshi, "wrap", Fault)

\* C37: the order of the visit does not matter.  The fee find_route reports
\* and the number of hops it picks are the same when the nodes and their in
\* arrays are gone through the other way round.
C37_OrderIndependent ==
    rlast.op = "find_route" /\ rlast.result.kind = "peer" =>
        \E other \in {FindRouteVisiting(Reverse(in_edges(Graph, 1)))} :
            /\ other.kind = "peer"
            /\ other.fee = rlast.result.fee
            /\ other.best = rlast.result.best

\* C36: the ends that are none.  find_route on a node whose own id is not
\* in the node map, and find_route for the local node itself, return no
\* route.
C36_DegenerateEnds ==
    rlast.op = "find_route" /\ (LocalId \notin node_map \/ rlast.arg.to = LocalId)
        => rlast.result.kind = "none"

\* C31: HTLC updates are repeatable.  With one update installed and the
\* channel back in NORMAL, an update_add_htlc of the peer that has a valid
\* expiry and that the peer can afford is accepted and staged: the process
\* keeps running and the proposal holds the packet's amount.
C31_UpdatesRepeatable ==
    (/\ last.op = "update_add_htlc"
     /\ last.problem # "Unexpected packet"
     /\ last.pre.num_htlcs >= 1
     /\ proto_to_abs_locktime(last.arg.expiry).ok
     /\ funding_delta(last.pre.them.offer_anchor = CMD_OPEN_WITH_ANCHOR,
                      last.pre.anchor.satoshis, 0, last.arg.amount_msat,
                      last.pre.cstate.b, last.pre.cstate.a).ok)
        => /\ ~last.aborted
           /\ state = "WAIT_FOR_UPDATE_SIG"
           /\ peer.current_htlc.msatoshis = last.arg.amount_msat
           /\ peer.current_htlc # last.pre.current_htlc

\* C38: a rejected open leaves the peer record as it was.  When
\* accept_pkt_open left through pkt_err, everything recorded about the
\* other side and the anchor redeemscript are what they were before the
\* packet.
C38_RejectedOpenUnchanged ==
    (last.op = "open" /\ last.via = "pkt_err")
        => /\ peer.them = last.pre.them
           /\ peer.anchor.redeemscript = last.pre.anchor.redeemscript

\* C39: num_htlcs counts installed updates.  It is 0 at construction; an
\* event raises it by one when update_accept or update_signature returned
\* NULL (update_to_new_htlcs installed the staged state) and leaves it alone
\* otherwise; and every update_signature and update_complete queued was
\* built with num_htlcs >= 1, disclosing the preimage of an index >= 0.
C39_NumHtlcsCountsInstalls ==
    /\ peer.num_htlcs >= 0
    /\ last.op = "init" => peer.num_htlcs = 0
    /\ peer.num_htlcs =
          last.pre.num_htlcs
          + (IF last.op \in {"update_accept", "update_signature"}
                /\ last.via = "return"
             THEN 1 ELSE 0)
    /\ (last.op \in {"update_accept", "update_signature"} /\ last.via = "return")
          => /\ peer.cstate = last.pre.current_htlc.cstate
             /\ peer.num_htlcs >= 1
    /\ \A pkt \in sent :
          pkt.pkt_case \in {"PKT_UPDATE_SIGNATURE", "PKT_UPDATE_COMPLETE"}
              => peer.num_htlcs >= 1 /\ pkt.revocation_preimage.n >= 0

\* update_signature was accepted: the staged state is installed, counted,
\* and the update_complete disclosing index num_htlcs - 1 is queued.
C39_Witness ==
    /\ last.op = "update_signature" /\ last.via = "return"
    /\ last.pre.num_htlcs = 0
    /\ peer.num_htlcs = 1
    /\ \E pkt \in sent : pkt.pkt_case = "PKT_UPDATE_COMPLETE"

\* C40: update_accept and update_signature are acted on only while a
\* proposal is pending.  Handled while peer->current_htlc is absent, either
\* packet is rejected through pkt_err and the peer is left as it was.
C40_AbsentProposalRejected ==
    (last.op \in {"update_accept", "update_signature"}
     /\ last.pre.current_htlc = NULL)
        => last.via = "pkt_err" /\ peer = last.pre

====
